---- MODULE Spec2Model ----
(***************************************************************************)
(* DAASR: adaptive rate limiter (DAASRAlgorithm), sliding-window traffic   *)
(* monitor (TrafficMonitor), configuration (ConfigManager) and rule-based  *)
(* alert evaluator (AlertingSystem).                                       *)
(*                                                                         *)
(* Representation.                                                         *)
(*  - Time is Date.now() in milliseconds; the clock only moves forward.    *)
(*  - The factors of the limiter are decimal fractions; they are kept as   *)
(*    scaled integers (tenths, the burst factor in hundredths) and the     *)
(*    product is rounded with exact arithmetic.  IEEE-754 rounding of a    *)
(*    product that is exactly a half-integer is not modelled.              *)
(*  - errorRate is the quotient of two counts and is kept as the pair      *)
(*    [num, den].                                                          *)
(*  - The arrays that grow by one element per call (the three logs of the  *)
(*    monitor, the request history and the offense list of an identifier)  *)
(*    are run-length encoded: one entry [timestamp, count, ...] stands for *)
(*    count consecutive array elements pushed at the same clock reading.   *)
(***************************************************************************)
EXTENDS Integers, Sequences, FiniteSets, TLC

VARIABLES
  now,                  \* Date.now()
  config,               \* ConfigManager.config (the three rate-limit keys)
  configError,          \* TRUE when the last config.set threw
  requestHistory,       \* TrafficMonitor.requestHistory
  responseTimeHistory,  \* TrafficMonitor.responseTimeHistory
  errorHistory,         \* TrafficMonitor.errorHistory
  trafficStats,         \* TrafficMonitor.trafficStats
  userPatterns,         \* DAASRAlgorithm.userPatterns
  lastAdjustment,       \* DAASRAlgorithm.lastAdjustment
  result,               \* what the last operation returned
  arg,                  \* argument handed to a pure function
  alertConfig,          \* AlertingSystem.config (checkInterval, maxAlerts)
  rules,                \* AlertingSystem.rules (insertion order)
  channels,             \* AlertingSystem.channels
  activeAlerts,         \* AlertingSystem.activeAlerts
  alertHistory,         \* AlertingSystem.alertHistory
  notifications,        \* notifications handed to sendNotifications / sendResolutionNotification
  isRunning,            \* AlertingSystem.isRunning
  heldSince,            \* per rule: first tick of the unbroken run of true readings that reaches the last tick, or Null
  inFlight,             \* deliveries waiting for the webhook's answer, with the channels still to serve
  suppression,          \* per rule: the last successful suppressAlert on an alert of the rule (until = now + D, sent = attempts logged before it)
  opCount               \* number of operations performed, per kind (bounded)

vars == <<now, config, configError, requestHistory, responseTimeHistory,
          errorHistory, trafficStats, userPatterns, lastAdjustment, result,
          arg, alertConfig, rules, channels, activeAlerts, alertHistory,
          notifications, isRunning, heldSince, suppression, inFlight, opCount>>

monitorVars == <<requestHistory, responseTimeHistory, errorHistory, trafficStats>>
limiterVars == <<userPatterns, lastAdjustment>>
alertVars   == <<alertConfig, rules, channels, activeAlerts, alertHistory,
                 notifications, isRunning, heldSince, suppression, inFlight>>

----------------------------------------------------------------------------
(* Bounds of the model *)

MaxCalls == 2        \* calls of the limiter / of getCurrentStats per behaviour
MaxTraffic == 3      \* recordRequest / recordResponse batches per behaviour
MaxConfigSets == 2   \* config.set calls per behaviour
MaxTicks == 5        \* evaluation ticks per behaviour of the alert evaluator
MaxAdmin == 1        \* administrative calls on the alert evaluator per behaviour

(* Clock readings at which the limiter and the monitor are exercised *)
Instants == {0, 30000, 60000, 900000}

Identifiers == {"ip1", "ip2"}

----------------------------------------------------------------------------
(* Arithmetic helpers *)

Max(a, b) == IF a >= b THEN a ELSE b
Min(a, b) == IF a <= b THEN a ELSE b

(* Math.floor(num / den) in the place of Math.round *)
RoundDiv_Floor(num, den) == num \div den

(* Math.round(num / den) for num >= 0, den > 0: floor(x + 0.5) *)
RoundDiv(num, den) == (2 * num + den) \div (2 * den)

(* Math.ceil(num / den) for num >= 0, den > 0 *)
CeilDiv(num, den) == (num + den - 1) \div den

RECURSIVE SumCount(_)
SumCount(s) == IF s = <<>> THEN 0 ELSE Head(s).count + SumCount(Tail(s))

(* Array.prototype.slice(-n) *)
LastN(s, n) == IF Len(s) <= n THEN s ELSE SubSeq(s, Len(s) - n + 1, Len(s))

(* Array.prototype.slice(-n) on a run-length encoded array *)
RECURSIVE LastCount(_, _)
LastCount(s, n) ==
  IF SumCount(s) <= n THEN s
  ELSE IF Head(s).count <= SumCount(s) - n THEN LastCount(Tail(s), n)
       ELSE <<[Head(s) EXCEPT !.count = @ - (SumCount(s) - n)]>> \o Tail(s)

----------------------------------------------------------------------------
(* ConfigManager *)

SchemaMin == [baseRateLimit |-> 1, minRateLimit |-> 1, maxRateLimit |-> 1,
              highTrafficThreshold |-> 1, mediumTrafficThreshold |-> 1,
              criticalResponseTime |-> 100, warningResponseTime |-> 100]
SchemaMax == [baseRateLimit |-> 10000, minRateLimit |-> 1000, maxRateLimit |-> 10000,
              highTrafficThreshold |-> 10000, mediumTrafficThreshold |-> 1000,
              criticalResponseTime |-> 10000, warningResponseTime |-> 5000]
SchemaDefault == [baseRateLimit |-> 100, minRateLimit |-> 10, maxRateLimit |-> 1000]

ConfigKeys == {"baseRateLimit", "minRateLimit", "maxRateLimit"}

(* Joi.number().integer().min(lo).max(hi) on an integer value *)
SchemaAccepts(key, value) == SchemaMin[key] <= value /\ value <= SchemaMax[key]

(* Environments of the process (DAASR_BASE_RATE_LIMIT, DAASR_MIN_RATE_LIMIT,
   DAASR_MAX_RATE_LIMIT); 0 stands for an unset variable (parseInt(...) || default) *)
Environments ==
  {[baseRateLimit |-> 0, minRateLimit |-> 0, maxRateLimit |-> 0],
   [baseRateLimit |-> 10000, minRateLimit |-> 0, maxRateLimit |-> 0],
   [baseRateLimit |-> 1, minRateLimit |-> 0, maxRateLimit |-> 0],
   [baseRateLimit |-> 0, minRateLimit |-> 0, maxRateLimit |-> 5]}

(* loadConfig: environment or default per key, then validation of the object *)
loadConfig(env) ==
  [k \in ConfigKeys |-> IF env[k] = 0 THEN SchemaDefault[k] ELSE env[k]]

(* loadConfig: the threshold keys, none of them set in the environment; the
   error rates as fractions *)
loadThresholds ==
  [highTrafficThreshold |-> 1000, mediumTrafficThreshold |-> 100,
   criticalErrorRate |-> <<1, 10>>, warningErrorRate |-> <<5, 100>>,
   criticalResponseTime |-> 1000, warningResponseTime |-> 500]

(* a JavaScript value handed to config.set: a number or a string *)
JsNumber(n) == [type |-> "number", number |-> n, text |-> ""]
JsString(s) == [type |-> "string", number |-> 0, text |-> s]

(* configSchema.extract(key).validate(value) reports no error: the value is a
   number of the key's range; a string passes only when it spells a number,
   which the strings used here do not *)
validate(key, value) == value.type = "number" /\ SchemaAccepts(key, value.number)

(* Values handed to config.set, valid and invalid *)
SetValues == [baseRateLimit |-> {JsNumber(1), JsNumber(0), JsString("invalid")},
              minRateLimit  |-> {JsNumber(1000), JsNumber(1001), JsString("invalid")},
              maxRateLimit  |-> {JsNumber(5), JsNumber(10001), JsString("invalid")}]

----------------------------------------------------------------------------
(* TrafficMonitor *)

OneMinute == 60000
OneHour == 3600000

ZeroRate == [num |-> 0, den |-> 1]

(* constructor / reset: the statistics object *)
InitialStats(t) ==
  [requestsPerSecond |-> 0, requestsPerMinute |-> 0, averageResponseTime |-> 0,
   errorRate |-> ZeroRate, totalRequests |-> 0, totalErrors |-> 0,
   peakRequestsPerSecond |-> 0, peakResponseTime |-> 0, lastUpdated |-> t]

(* Array.prototype.push of e.count equal elements onto a run-length encoded log *)
Push(log, e) ==
  IF log # <<>> /\ [log[Len(log)] EXCEPT !.count = 0] = [e EXCEPT !.count = 0]
  THEN [log EXCEPT ![Len(log)].count = @ + e.count]
  ELSE Append(log, e)

(* filter(x => x.timestamp > cutoff) *)
After(log, cutoff) == SelectSeq(log, LAMBDA e : e.timestamp > cutoff)

RECURSIVE SumResponseTime(_)
SumResponseTime(s) ==
  IF s = <<>> THEN 0
  ELSE Head(s).responseTime * Head(s).count + SumResponseTime(Tail(s))

RECURSIVE MaxResponseTime(_)
MaxResponseTime(s) ==
  IF s = <<>> THEN 0 ELSE Max(Head(s).responseTime, MaxResponseTime(Tail(s)))

(* recordRequest that prunes the log as it was before the push and loses the push *)
recordRequestLog_StaleSnapshot(rh, t, n) == After(rh, t - OneHour)

(* recordRequest, called n times at clock reading t: the new requestHistory *)
recordRequestLog(rh, t, n) == After(Push(rh, [timestamp |-> t, count |-> n]), t - OneHour)

(* recordResponse, called n times at t: the new responseTimeHistory *)
recordResponseLog(rth, t, statusCode, responseTime, n) ==
  After(Push(rth, [timestamp |-> t, responseTime |-> responseTime,
                   statusCode |-> statusCode, count |-> n]), t - OneHour)

(* recordResponse, called n times at t: the new errorHistory *)
recordResponseErrors(eh, t, statusCode, n) ==
  After(IF statusCode >= 400
        THEN Push(eh, [timestamp |-> t, statusCode |-> statusCode, count |-> n])
        ELSE eh, t - OneHour)

(* calculateStats that adds the rate to the peak at every call *)
calculateStats_AddsPeak(rh, rth, eh, ts, t) ==
  LET oneMinuteAgo == t - OneMinute
      recentRequests == SumCount(After(rh, oneMinuteAgo))
      recentResponses == After(rth, oneMinuteAgo)
      nResponses == SumCount(recentResponses)
      recentErrors == SumCount(After(eh, oneMinuteAgo))
      rps == RoundDiv(recentRequests, 60)
  IN [ts EXCEPT
        !.requestsPerMinute = recentRequests,
        !.requestsPerSecond = rps,
        !.averageResponseTime =
            IF nResponses > 0
            THEN RoundDiv(SumResponseTime(recentResponses), nResponses) ELSE @,
        !.peakResponseTime =
            IF nResponses > 0 THEN Max(@, MaxResponseTime(recentResponses)) ELSE @,
        !.errorRate =
            IF recentRequests > 0
            THEN [num |-> recentErrors, den |-> recentRequests] ELSE @,
        !.peakRequestsPerSecond = @ + rps,
        !.lastUpdated = t]

(* calculateStats at clock reading t: the new trafficStats *)
calculateStats(rh, rth, eh, ts, t) ==
  LET oneMinuteAgo == t - OneMinute
      recentRequests == SumCount(After(rh, oneMinuteAgo))
      recentResponses == After(rth, oneMinuteAgo)
      nResponses == SumCount(recentResponses)
      recentErrors == SumCount(After(eh, oneMinuteAgo))
      rps == RoundDiv(recentRequests, 60)
  IN [ts EXCEPT
        !.requestsPerMinute = recentRequests,
        !.requestsPerSecond = rps,
        !.averageResponseTime =
            IF nResponses > 0
            THEN RoundDiv(SumResponseTime(recentResponses), nResponses) ELSE @,
        !.peakResponseTime =
            IF nResponses > 0 THEN Max(@, MaxResponseTime(recentResponses)) ELSE @,
        !.errorRate =
            IF recentRequests > 0
            THEN [num |-> recentErrors, den |-> recentRequests] ELSE @,
        !.peakRequestsPerSecond = Max(@, rps),
        !.lastUpdated = t]

(* cleanupOldData that keeps the last minute only *)
cleanupOldData_KeepsMinute(log, t) == After(log, t - OneMinute)

(* cleanupOldData *)
cleanupOldData(log, t) == After(log, t - OneHour)

(* the period of the cleanup timer of startMonitoring *)
MonitorInterval == 60000

(* the timer callback of startMonitoring at clock reading t, on the monitor
   M = [requestHistory, responseTimeHistory, errorHistory, trafficStats]:
   cleanupOldData(), then calculateStats() *)
monitorTick(M, t) ==
  LET rh == cleanupOldData(M.requestHistory, t)
      rth == cleanupOldData(M.responseTimeHistory, t)
      eh == cleanupOldData(M.errorHistory, t)
  IN [requestHistory |-> rh, responseTimeHistory |-> rth, errorHistory |-> eh,
      trafficStats |-> calculateStats(rh, rth, eh, M.trafficStats, t)]

(* the thresholds calculateHealthStatus declares; the error rates as fractions *)
HealthThresholds ==
  [highTrafficThreshold |-> 100, mediumTrafficThreshold |-> 50,
   criticalErrorRate |-> <<1, 10>>, warningErrorRate |-> <<5, 100>>,
   criticalResponseTime |-> 1000, warningResponseTime |-> 500]

(* a > b for the rate a and the decimal b = bNum / bDen *)
RateAbove(rate, bound) == rate.num * bound[2] > bound[1] * rate.den

(* calculateHealthStatus with the error rate looked at before the request rate *)
calculateHealthStatus_ErrorRateFirst(stats) ==
  LET thresholds == HealthThresholds
  IN IF RateAbove(stats.errorRate, thresholds.criticalErrorRate) THEN "critical"
     ELSE IF RateAbove(stats.errorRate, thresholds.warningErrorRate) THEN "warning"
     ELSE IF stats.requestsPerSecond > thresholds.highTrafficThreshold THEN "high-load"
     ELSE IF stats.requestsPerSecond > thresholds.mediumTrafficThreshold THEN "medium-load"
     ELSE IF stats.averageResponseTime > thresholds.criticalResponseTime THEN "critical"
     ELSE IF stats.averageResponseTime > thresholds.warningResponseTime THEN "warning"
     ELSE "healthy"

(* calculateHealthStatus(stats) *)
calculateHealthStatus(stats) ==
  LET thresholds == HealthThresholds
  IN IF stats.requestsPerSecond > thresholds.highTrafficThreshold THEN "high-load"
     ELSE IF stats.requestsPerSecond > thresholds.mediumTrafficThreshold THEN "medium-load"
     ELSE IF RateAbove(stats.errorRate, thresholds.criticalErrorRate) THEN "critical"
     ELSE IF RateAbove(stats.errorRate, thresholds.warningErrorRate) THEN "warning"
     ELSE IF stats.averageResponseTime > thresholds.criticalResponseTime THEN "critical"
     ELSE IF stats.averageResponseTime > thresholds.warningResponseTime THEN "warning"
     ELSE "healthy"

(* config.get(key) || fallback *)
OrElse(value, fallback) == IF value = 0 THEN fallback ELSE value

(* getSystemHealth on the statistics getCurrentStats returned, cfg the
   configuration: the status, the metrics and the thresholds reported *)
getSystemHealth(stats, cfg) ==
  [status |-> calculateHealthStatus(stats),
   metrics |-> [requestsPerSecond |-> stats.requestsPerSecond,
                averageResponseTime |-> stats.averageResponseTime,
                errorRate |-> stats.errorRate,
                totalRequests |-> stats.totalRequests,
                totalErrors |-> stats.totalErrors],
   thresholds |-> [highTraffic |-> OrElse(cfg.highTrafficThreshold, 100),
                   mediumTraffic |-> OrElse(cfg.mediumTrafficThreshold, 50),
                   criticalErrorRate |-> IF cfg.criticalErrorRate[1] = 0 THEN <<1, 10>>
                                         ELSE cfg.criticalErrorRate,
                   warningErrorRate |-> IF cfg.warningErrorRate[1] = 0 THEN <<5, 100>>
                                        ELSE cfg.warningErrorRate,
                   criticalResponseTime |-> OrElse(cfg.criticalResponseTime, 1000),
                   warningResponseTime |-> OrElse(cfg.warningResponseTime, 500)]]

----------------------------------------------------------------------------
(* DAASRAlgorithm *)

AdjustmentInterval == 30000
HistoryCap == 100
BurstWindow == 60000
FifteenMinutes == 900000
NewUserRequests == 10

NoProfile == [present |-> FALSE, requests |-> <<>>, hasOffenses |-> FALSE, offenses |-> <<>>]

(* a > b for the rate a and the decimal b = bNum / bDen *)
RateGreater(rate, bNum, bDen) == rate.num * bDen > bNum * rate.den

(* the checks of calculateTrafficMultiplier with the error rate looked at
   before the request rate *)
calculateTrafficMultiplier_ErrorRateFirst(stats) ==
  IF RateGreater(stats.errorRate, 1, 10) THEN 6
  ELSE IF RateGreater(stats.errorRate, 5, 100) THEN 8
  ELSE IF stats.requestsPerSecond > 1000 THEN 5
  ELSE IF stats.requestsPerSecond > 500 THEN 7
  ELSE IF stats.requestsPerSecond > 100 THEN 9
  ELSE IF stats.averageResponseTime > 1000 THEN 7
  ELSE IF stats.averageResponseTime > 500 THEN 9
  ELSE 10

(* calculateTrafficMultiplier, in tenths *)
calculateTrafficMultiplier(stats) ==
  IF stats.requestsPerSecond > 1000 THEN 5
  ELSE IF stats.requestsPerSecond > 500 THEN 7
  ELSE IF stats.requestsPerSecond > 100 THEN 9
  ELSE IF RateGreater(stats.errorRate, 1, 10) THEN 6
  ELSE IF RateGreater(stats.errorRate, 5, 100) THEN 8
  ELSE IF stats.averageResponseTime > 1000 THEN 7
  ELSE IF stats.averageResponseTime > 500 THEN 9
  ELSE 10

(* Math.max(0.5, 1 - n / 100), in hundredths *)
BurstScore(n) == Max(50, 100 - n)

(* calculateBurstFactor keeping the first 100 requests (slice(0, 100)) *)
calculateBurstFactor_KeepsOldest(up, identifier, t) ==
  LET userHistory == IF up[identifier].present THEN up[identifier]
                     ELSE [NoProfile EXCEPT !.present = TRUE]
      recentRequests == SelectSeq(userHistory.requests,
                                  LAMBDA req : t - req.timestamp < BurstWindow)
      pushed == Push(userHistory.requests, [timestamp |-> t, count |-> 1])
  IN [score |-> BurstScore(SumCount(recentRequests)),
      up |-> [up EXCEPT ![identifier] =
                [userHistory EXCEPT !.requests =
                   IF SumCount(pushed) > HistoryCap THEN userHistory.requests ELSE pushed]]]

(* calculateBurstFactor counting the recent requests after the push *)
calculateBurstFactor_CountAfterPush(up, identifier, t) ==
  LET userHistory == IF up[identifier].present THEN up[identifier]
                     ELSE [NoProfile EXCEPT !.present = TRUE]
      pushed == Push(userHistory.requests, [timestamp |-> t, count |-> 1])
      recentRequests == SelectSeq(pushed, LAMBDA req : t - req.timestamp < BurstWindow)
  IN [score |-> BurstScore(SumCount(recentRequests)),
      up |-> [up EXCEPT ![identifier] =
                [userHistory EXCEPT !.requests = LastCount(pushed, HistoryCap)]]]

(* calculateBurstFactor: the score (hundredths) and the updated userPatterns *)
calculateBurstFactor(up, identifier, t) ==
  LET userHistory == IF up[identifier].present THEN up[identifier]
                     ELSE [NoProfile EXCEPT !.present = TRUE]
      recentRequests == SelectSeq(userHistory.requests,
                                  LAMBDA req : t - req.timestamp < BurstWindow)
      pushed == Push(userHistory.requests, [timestamp |-> t, count |-> 1])
  IN [score |-> BurstScore(SumCount(recentRequests)),
      up |-> [up EXCEPT ![identifier] =
                [userHistory EXCEPT !.requests = LastCount(pushed, HistoryCap)]]]

(* calculateResourceFactor, in tenths *)
calculateResourceFactor == 10

(* calculateUserReputation, in tenths *)
calculateUserReputation(up, identifier) ==
  IF ~up[identifier].present THEN 10
  ELSE IF SumCount(up[identifier].requests) < NewUserRequests THEN 12
  ELSE 10

(* 1.0 - k * 0.1 without the floor of 0.5 *)
PenaltyScore_NoFloor(k) == 10 - k

(* Math.max(0.5, 1.0 - k * 0.1), in tenths *)
PenaltyScore(k) == Max(5, 10 - k)

(* calculatePenaltyFactor keeping the offenses that are exactly 15 minutes old *)
calculatePenaltyFactor_KeepsAtFifteen(up, identifier, t) ==
  IF ~up[identifier].present \/ ~up[identifier].hasOffenses
  THEN [penalty |-> 10, up |-> up]
  ELSE LET kept == SelectSeq(up[identifier].offenses,
                             LAMBDA offense : t - offense.timestamp <= FifteenMinutes)
       IN [penalty |-> PenaltyScore(SumCount(kept)),
           up |-> [up EXCEPT ![identifier].offenses = kept]]

(* calculatePenaltyFactor: the penalty (tenths) and the updated userPatterns *)
calculatePenaltyFactor(up, identifier, t) ==
  IF ~up[identifier].present \/ ~up[identifier].hasOffenses
  THEN [penalty |-> 10, up |-> up]
  ELSE LET kept == SelectSeq(up[identifier].offenses,
                             LAMBDA offense : t - offense.timestamp < FifteenMinutes)
       IN [penalty |-> PenaltyScore(SumCount(kept)),
           up |-> [up EXCEPT ![identifier].offenses = kept]]

(* calculateWindowSize with the thresholds included in the upper steps *)
calculateWindowSize_Inclusive(stats) ==
  IF stats.requestsPerSecond >= 100 THEN 60000
  ELSE IF stats.requestsPerSecond >= 10 THEN 5 * 60000
  ELSE 15 * 60000

(* calculateWindowSize *)
calculateWindowSize(stats) ==
  IF stats.requestsPerSecond > 100 THEN 60000
  ELSE IF stats.requestsPerSecond > 10 THEN 5 * 60000
  ELSE 15 * 60000

(* Math.round(base * p / 1000000), p the product of the scaled factors; the
   division is split so that no intermediate value leaves 32 bits *)
RoundScaled(base, p) ==
  LET w == base * (p \div 1000)
      v == base * (p % 1000)
  IN (w \div 1000) + (((w % 1000) * 1000 + v + 500000) \div 1000000)

(* the final limit with the product cut off (Math.floor) instead of rounded *)
FinalLimit_Floor(cfg, tm, bf, rf, rep, pf) ==
  LET p == tm * bf * rf * rep * pf
      w == cfg.baseRateLimit * (p \div 1000)
      v == cfg.baseRateLimit * (p % 1000)
  IN Max(cfg.minRateLimit,
         Min(cfg.maxRateLimit, (w \div 1000) + (((w % 1000) * 1000 + v) \div 1000000)))

(* Math.max(min, Math.min(max, Math.round(base * product of the factors))) *)
FinalLimit(cfg, tm, bf, rf, rep, pf) ==
  Max(cfg.minRateLimit,
      Min(cfg.maxRateLimit, RoundScaled(cfg.baseRateLimit, tm * bf * rf * rep * pf)))

(* calculateDynamicLimit on S = [trafficStats, userPatterns, lastAdjustment]:
   the new S and the returned configuration *)
calculateDynamicLimit(S, identifier, t, cfg) ==
  LET stats == calculateStats(requestHistory, responseTimeHistory, errorHistory,
                              S.trafficStats, t)
      trafficMultiplier == calculateTrafficMultiplier(stats)
      burst == calculateBurstFactor(S.userPatterns, identifier, t)
      resourceFactor == calculateResourceFactor
      reputationFactor == calculateUserReputation(burst.up, identifier)
      pen == calculatePenaltyFactor(burst.up, identifier, t)
      dynamicLimit == FinalLimit(cfg, trafficMultiplier, burst.score, resourceFactor,
                                 reputationFactor, pen.penalty)
      windowSize == calculateWindowSize(stats)
  IN [S |-> [trafficStats |-> stats,
             userPatterns |-> pen.up,
             lastAdjustment |-> IF t - S.lastAdjustment > AdjustmentInterval
                                THEN t ELSE S.lastAdjustment],
      ret |-> [op |-> "calculateDynamicLimit", identifier |-> identifier,
               windowMs |-> windowSize, max |-> dynamicLimit,
               retryAfter |-> CeilDiv(windowSize, 1000),
               trafficMultiplier |-> trafficMultiplier, burstFactor |-> burst.score,
               resourceFactor |-> resourceFactor, reputationFactor |-> reputationFactor,
               penaltyFactor |-> pen.penalty, baseConfig |-> cfg, stats |-> stats]]

(* k consecutive calls of calculateDynamicLimit for one identifier at one
   clock reading; the value is that of the last call.  (The first half of the
   calls is evaluated, then the second half from the state it leaves.) *)
RECURSIVE calculateDynamicLimitTimes(_, _, _, _, _)
calculateDynamicLimitTimes(S, identifier, t, cfg, k) ==
  IF k = 1 THEN calculateDynamicLimit(S, identifier, t, cfg)
  ELSE CHOOSE r \in {calculateDynamicLimitTimes(S1, identifier, t, cfg, k - (k \div 2)) :
                       S1 \in {calculateDynamicLimitTimes(S, identifier, t, cfg, k \div 2).S}} : TRUE

(* handleRateLimit that starts from an empty profile whatever is stored *)
handleRateLimit_FreshProfile(up, identifier, t) ==
  LET userHistory == [NoProfile EXCEPT !.present = TRUE, !.hasOffenses = TRUE]
  IN [up EXCEPT ![identifier] =
        [userHistory EXCEPT !.hasOffenses = TRUE,
                            !.offenses = Push(userHistory.offenses,
                                              [timestamp |-> t, count |-> 1])]]

(* handleRateLimit: the updated userPatterns *)
handleRateLimit(up, identifier, t) ==
  LET userHistory == IF up[identifier].present THEN up[identifier]
                     ELSE [NoProfile EXCEPT !.present = TRUE, !.hasOffenses = TRUE]
  IN [up EXCEPT ![identifier] =
        [userHistory EXCEPT !.hasOffenses = TRUE,
                            !.offenses = Push(userHistory.offenses,
                                              [timestamp |-> t, count |-> 1])]]

(* the handler of createDAASRMiddleware on S: calculateDynamicLimit, then
   handleRateLimit with the computed max and windowMs; the new S and the
   response *)
limitHandler(S, identifier, t, cfg) ==
  LET r == calculateDynamicLimit(S, identifier, t, cfg)
  IN [S |-> [r.S EXCEPT !.userPatterns = handleRateLimit(@, identifier, t)],
      ret |-> [op |-> "handleRateLimit", identifier |-> identifier,
               status |-> 429, limit |-> r.ret.max,
               retryAfter |-> CeilDiv(r.ret.windowMs, 1000),
               algorithm |-> "DAASR-v1", timestamp |-> t]]

(* one inbound request through the middleware on S: the limiter library calls
   the max option, calls the windowMs option when it evaluates that option per
   request (perRequestWindow), and calls the handler when it rejects the
   request (rejected); the new S and what the request got *)
middleware(S, identifier, t, cfg, perRequestWindow, rejected) ==
  LET max == calculateDynamicLimit(S, identifier, t, cfg)
      windowMs == IF perRequestWindow
                  THEN calculateDynamicLimit(max.S, identifier, t, cfg)
                  ELSE max
      handled == IF rejected THEN limitHandler(windowMs.S, identifier, t, cfg)
                 ELSE windowMs
  IN [S |-> handled.S,
      ret |-> [op |-> "request", identifier |-> identifier, rejected |-> rejected,
               perRequestWindow |-> perRequestWindow, max |-> max.ret.max,
               burstFactor |-> max.ret.burstFactor,
               reputationFactor |-> max.ret.reputationFactor]]

(* k requests in a row rejected for one identifier at one clock reading *)
RECURSIVE limitHandlerTimes(_, _, _, _, _)
limitHandlerTimes(S, identifier, t, cfg, k) ==
  IF k = 1 THEN limitHandler(S, identifier, t, cfg)
  ELSE CHOOSE r \in {limitHandlerTimes(S1, identifier, t, cfg, k - (k \div 2)) :
                       S1 \in {limitHandlerTimes(S, identifier, t, cfg, k \div 2).S}} : TRUE

----------------------------------------------------------------------------
(* AlertingSystem *)

Null == -1   \* null / undefined in a numeric field

CheckInterval == 30000
MaxAlerts == 1000
DayMs == 86400000
DefaultChannels == <<"console", "logfile">>
DefaultSuppressionTime == 300000

(* the constructor's config for the options given (0: option not given) *)
AlertingConfig(options) ==
  [checkInterval |-> IF options.checkInterval = 0 THEN CheckInterval ELSE options.checkInterval,
   maxAlerts |-> IF options.maxAlerts = 0 THEN MaxAlerts ELSE options.maxAlerts]

(* addRule: the stored rule, with the defaults of the optional fields *)
addRule(id, metric, condition, threshold, duration, severity) ==
  [id |-> id, metric |-> metric, condition |-> condition, threshold |-> threshold,
   duration |-> duration, severity |-> severity, enabled |-> TRUE,
   channels |-> DefaultChannels, suppressionTime |-> DefaultSuppressionTime,
   lastTriggered |-> Null, triggerCount |-> 0]

(* initializeDefaultRules with the critical memory rule sustained for the default minute *)
initializeDefaultRules_DefaultDuration ==
  << addRule("high_cpu_usage", "system.cpu.overall", "greater_than", 80, 60000, "warning"),
     addRule("critical_cpu_usage", "system.cpu.overall", "greater_than", 95, 30000, "critical"),
     addRule("high_memory_usage", "system.memory.usagePercent", "greater_than", 85, 60000, "warning"),
     addRule("critical_memory_usage", "system.memory.usagePercent", "greater_than", 95, 60000, "critical"),
     addRule("high_load_average", "system.load.load1", "greater_than", 4, 120000, "warning"),
     addRule("slow_response_time", "application.response_time", "greater_than", 1000, 60000, "warning"),
     addRule("high_error_rate", "application.error_rate", "greater_than", 5, 60000, "critical") >>

(* initializeDefaultRules *)
initializeDefaultRules ==
  << addRule("high_cpu_usage", "system.cpu.overall", "greater_than", 80, 60000, "warning"),
     addRule("critical_cpu_usage", "system.cpu.overall", "greater_than", 95, 30000, "critical"),
     addRule("high_memory_usage", "system.memory.usagePercent", "greater_than", 85, 60000, "warning"),
     addRule("critical_memory_usage", "system.memory.usagePercent", "greater_than", 95, 30000, "critical"),
     addRule("high_load_average", "system.load.load1", "greater_than", 4, 120000, "warning"),
     addRule("slow_response_time", "application.response_time", "greater_than", 1000, 60000, "warning"),
     addRule("high_error_rate", "application.error_rate", "greater_than", 5, 60000, "critical") >>

RuleIds == {initializeDefaultRules[i].id : i \in 1..Len(initializeDefaultRules)}

(* addChannel: the stored channel *)
addChannel(type) == [type |-> type, enabled |-> TRUE, lastUsed |-> Null, messageCount |-> 0]

(* initializeDefaultChannels; webhook: WEBHOOK_URL is set in the environment *)
initializeDefaultChannels(webhook) ==
  IF webhook
  THEN [c \in {"console", "logfile", "webhook"} |-> addChannel(c)]
  ELSE [c \in {"console", "logfile"} |-> addChannel(c)]

(* Values the metric source produces (Math.random() * scale, sampled) *)
MetricValues ==
  [system_cpu |-> {0, 50, 90, 97}, system_memory |-> {50}, system_load |-> {1},
   response_time |-> {500}, error_rate |-> {2}]

(* a metric source whose CPU reading is either idle or saturated *)
TwoLevelMetricValues == [MetricValues EXCEPT !.system_cpu = {50, 97}]

MetricSamples(values, metricPath) ==
  CASE metricPath = "system.cpu.overall" -> values.system_cpu
    [] metricPath = "system.memory.usagePercent" -> values.system_memory
    [] metricPath = "system.load.load1" -> values.system_load
    [] metricPath = "application.response_time" -> values.response_time
    [] metricPath = "application.error_rate" -> values.error_rate
    [] OTHER -> {Null}

(* getMetricValue: simulated[metricPath] || null, for the sample drawn *)
getMetricValue(sample) == IF sample = 0 THEN Null ELSE sample

(* evaluateCondition *)
evaluateCondition(value, condition, threshold) ==
  CASE condition = "greater_than" -> value > threshold
    [] condition = "less_than" -> value < threshold
    [] condition = "equal_to" -> value = threshold
    [] condition = "not_equal_to" -> value # threshold
    [] condition = "greater_than_or_equal" -> value >= threshold
    [] condition = "less_than_or_equal" -> value <= threshold
    [] OTHER -> FALSE

RuleIndex(rs, ruleId) == CHOOSE i \in 1..Len(rs) : rs[i].id = ruleId

(* Map.delete *)
MapDelete(m, key) == [k \in (DOMAIN m) \ {key} |-> m[k]]

(* Map.set *)
MapSet(m, key, value) == [k \in (DOMAIN m) \cup {key} |-> IF k = key THEN value ELSE m[k]]

(* The evaluator's state during a tick is the record A: rules, activeAlerts,
   alertHistory, channels, the log of delivery attempts (notifications), and
   what the tick did: the rules evaluated, the events emitted, the errors
   caught by checkAlerts, the rules triggered and resolved.  A.listenerThrows
   is the set of events whose listener throws and A.failing the set of
   channels whose sendToChannel rejects during this tick; A.thrown is set
   while an exception travels up to the try/catch of checkAlerts.  When
   A.awaits is set, a delivery loop that reaches `await fetch(...)` of a
   webhook stays there: it is added to A.inFlight with the position it has
   reached, and goes on when the answer arrives. *)

(* emit(event, alert) *)
emit(A, event, ruleId) ==
  [A EXCEPT !.emitted = Append(@, [event |-> event, ruleId |-> ruleId]),
            !.thrown = @ \/ event \in A.listenerThrows]

(* sendToChannel rejects *)
sendToChannelFails(A, channelId) ==
  \/ A.channels[channelId].type \notin {"console", "logfile", "webhook", "email"}
  \/ A.channels[channelId].type = "webhook" /\ channelId \in A.failing

(* the delivery loop without the try/catch: the first failure ends it *)
RECURSIVE Deliveries_StopsAtFailure(_, _, _, _, _, _)
Deliveries_StopsAtFailure(A, kind, alert, channelIds, j, t) ==
  IF j > Len(channelIds) THEN A
  ELSE LET c == channelIds[j]
       IN IF c \notin DOMAIN A.channels \/ ~A.channels[c].enabled
          THEN Deliveries_StopsAtFailure(A, kind, alert, channelIds, j + 1, t)
          ELSE LET failed == sendToChannelFails(A, c)
                   attempt == [kind |-> kind, alertId |-> alert.id, ruleId |-> alert.ruleId,
                               channel |-> c, at |-> t,
                               outcome |-> IF failed THEN "failed" ELSE "delivered"]
                   counted == IF failed \/ kind # "trigger" THEN A.channels
                              ELSE [A.channels EXCEPT ![c].lastUsed = t,
                                                      ![c].messageCount = @ + 1]
                   B == [A EXCEPT !.notifications = Append(@, attempt), !.channels = counted]
               IN IF failed THEN B
                  ELSE Deliveries_StopsAtFailure(B, kind, alert, channelIds, j + 1, t)

(* the loop of sendNotifications / sendResolutionNotification over the
   channel ids from position j on: one attempt per existing enabled channel *)
RECURSIVE Deliveries(_, _, _, _, _, _)
Deliveries(A, kind, alert, channelIds, j, t) ==
  IF j > Len(channelIds) THEN A
  ELSE LET c == channelIds[j]
       IN IF c \notin DOMAIN A.channels \/ ~A.channels[c].enabled
          THEN Deliveries(A, kind, alert, channelIds, j + 1, t)
          ELSE IF A.awaits /\ A.channels[c].type = "webhook"
          THEN [A EXCEPT !.inFlight =
                  Append(@, [kind |-> kind, alert |-> alert, channelIds |-> channelIds,
                             j |-> j, since |-> t])]
          ELSE LET failed == sendToChannelFails(A, c)
                   attempt == [kind |-> kind, alertId |-> alert.id, ruleId |-> alert.ruleId,
                               channel |-> c, at |-> t,
                               outcome |-> IF failed THEN "failed" ELSE "delivered"]
                   counted == IF failed \/ kind # "trigger" THEN A.channels
                              ELSE [A.channels EXCEPT ![c].lastUsed = t,
                                                      ![c].messageCount = @ + 1]
               IN Deliveries([A EXCEPT !.notifications = Append(@, attempt),
                                       !.channels = counted],
                             kind, alert, channelIds, j + 1, t)

(* sendNotifications *)
sendNotifications(A, alert, t) ==
  Deliveries(A, "trigger", alert, A.rules[RuleIndex(A.rules, alert.ruleId)].channels, 1, t)

(* sendResolutionNotification *)
sendResolutionNotification(A, alert, t) ==
  Deliveries(A, "resolved", alert, A.rules[RuleIndex(A.rules, alert.ruleId)].channels, 1, t)

(* the snapshot { ...alert, triggeredAt | resolvedAt, type } pushed on the history *)
HistoryEntry(alert, type, t) ==
  [alertId |-> alert.id, ruleId |-> alert.ruleId, startTime |-> alert.startTime,
   currentValue |-> alert.currentValue, notificationsSent |-> alert.notificationsSent,
   type |-> type,
   triggeredAt |-> IF type = "triggered" THEN t ELSE Null,
   resolvedAt |-> IF type = "resolved" THEN t ELSE Null]

(* triggerAlert *)
triggerAlert(A, ruleId, t) ==
  LET alert == A.activeAlerts[ruleId]
      i == RuleIndex(A.rules, ruleId)
  IN IF alert.suppressedUntil # Null /\ t < alert.suppressedUntil
     THEN A
     ELSE LET counted == [A EXCEPT
                            !.rules[i].lastTriggered = t,
                            !.rules[i].triggerCount = @ + 1,
                            !.alertHistory = Append(@, HistoryEntry(alert, "triggered", t))]
              sent == sendNotifications(counted, alert, t)
          IN emit([sent EXCEPT !.activeAlerts[ruleId].notificationsSent = @ + 1,
                               !.activeAlerts[ruleId].lastNotification = t,
                               !.triggered = @ \cup {ruleId}],
                  "alertTriggered", ruleId)

(* resolveAlert leaving the alert in the active set *)
resolveAlert_KeepsActive(A, ruleId, t) ==
  LET alert == A.activeAlerts[ruleId]
      archived == [A EXCEPT
                     !.alertHistory = Append(@, HistoryEntry(alert, "resolved", t))]
      sent == sendResolutionNotification(archived, alert, t)
  IN emit([sent EXCEPT !.resolved = @ \cup {ruleId}], "alertResolved", ruleId)

(* resolveAlert *)
resolveAlert(A, ruleId, t) ==
  LET alert == A.activeAlerts[ruleId]
      archived == [A EXCEPT
                     !.alertHistory = Append(@, HistoryEntry(alert, "resolved", t)),
                     !.activeAlerts = MapDelete(@, ruleId)]
      sent == sendResolutionNotification(archived, alert, t)
  IN emit([sent EXCEPT !.resolved = @ \cup {ruleId}], "alertResolved", ruleId)

(* evaluateRule that restarts the clock of an existing alert at every true reading *)
evaluateRule_RestartsAlert(A, i, sample, t) ==
  LET rule == A.rules[i]
      metricValue == getMetricValue(sample)
      conditionMet == evaluateCondition(metricValue, rule.condition, rule.threshold)
      alertKey == rule.id
  IN IF metricValue = Null THEN A
     ELSE IF conditionMet
     THEN LET created ==
                IF alertKey \in DOMAIN A.activeAlerts
                THEN [A EXCEPT !.activeAlerts[alertKey].lastUpdate = t,
                               !.activeAlerts[alertKey].startTime = t,
                               !.activeAlerts[alertKey].currentValue = metricValue]
                ELSE [A EXCEPT !.activeAlerts = MapSet(@, alertKey,
                        [id |-> <<rule.id, t>>, ruleId |-> rule.id, startTime |-> t,
                         lastUpdate |-> t, currentValue |-> metricValue,
                         state |-> rule.severity, notificationsSent |-> 0,
                         suppressedUntil |-> Null, lastNotification |-> Null])]
          IN IF t - created.activeAlerts[alertKey].startTime >= rule.duration
             THEN triggerAlert(created, alertKey, t)
             ELSE created
     ELSE IF alertKey \in DOMAIN A.activeAlerts
          THEN resolveAlert(A, alertKey, t)
          ELSE A

(* evaluateRule that triggers only after more than the duration *)
evaluateRule_StrictDuration(A, i, sample, t) ==
  LET rule == A.rules[i]
      metricValue == getMetricValue(sample)
      conditionMet == evaluateCondition(metricValue, rule.condition, rule.threshold)
      alertKey == rule.id
  IN IF metricValue = Null THEN A
     ELSE IF conditionMet
     THEN LET created ==
                IF alertKey \in DOMAIN A.activeAlerts
                THEN [A EXCEPT !.activeAlerts[alertKey].lastUpdate = t,
                               !.activeAlerts[alertKey].currentValue = metricValue]
                ELSE [A EXCEPT !.activeAlerts = MapSet(@, alertKey,
                        [id |-> <<rule.id, t>>, ruleId |-> rule.id, startTime |-> t,
                         lastUpdate |-> t, currentValue |-> metricValue,
                         state |-> rule.severity, notificationsSent |-> 0,
                         suppressedUntil |-> Null, lastNotification |-> Null])]
          IN IF t - created.activeAlerts[alertKey].startTime > rule.duration
             THEN triggerAlert(created, alertKey, t)
             ELSE created
     ELSE IF alertKey \in DOMAIN A.activeAlerts
          THEN resolveAlert(A, alertKey, t)
          ELSE A

(* evaluateRule for the rule at position i, the metric source producing sample *)
evaluateRule(A, i, sample, t) ==
  LET rule == A.rules[i]
      metricValue == getMetricValue(sample)
      conditionMet == evaluateCondition(metricValue, rule.condition, rule.threshold)
      alertKey == rule.id
  IN IF metricValue = Null THEN A
     ELSE IF conditionMet
     THEN LET created ==
                IF alertKey \in DOMAIN A.activeAlerts
                THEN [A EXCEPT !.activeAlerts[alertKey].lastUpdate = t,
                               !.activeAlerts[alertKey].currentValue = metricValue]
                ELSE [A EXCEPT !.activeAlerts = MapSet(@, alertKey,
                        [id |-> <<rule.id, t>>, ruleId |-> rule.id, startTime |-> t,
                         lastUpdate |-> t, currentValue |-> metricValue,
                         state |-> rule.severity, notificationsSent |-> 0,
                         suppressedUntil |-> Null, lastNotification |-> Null])]
          IN IF t - created.activeAlerts[alertKey].startTime >= rule.duration
             THEN triggerAlert(created, alertKey, t)
             ELSE created
     ELSE IF alertKey \in DOMAIN A.activeAlerts
          THEN resolveAlert(A, alertKey, t)
          ELSE A

(* cleanupResolvedAlerts *)
cleanupResolvedAlerts(history, t, maxAlerts) ==
  LastN(SelectSeq(history, LAMBDA e : e.triggeredAt # Null /\ e.triggeredAt > t - DayMs),
        maxAlerts)

(* the try { evaluateRule } catch { log } of checkAlerts for the rule at position i *)
tryEvaluateRule(A, i, sample, t) ==
  LET B == CHOOSE r \in {evaluateRule([A EXCEPT !.evaluated = Append(@, A.rules[i].id)],
                                      i, sample, t)} : TRUE
  IN IF B.thrown
     THEN [B EXCEPT !.errors = Append(@, A.rules[i].id), !.thrown = FALSE]
     ELSE B

(* the loop of checkAlerts without the try/catch: the first exception ends it *)
RECURSIVE checkRules_AbortsOnThrow(_, _, _, _)
checkRules_AbortsOnThrow(A, i, samples, t) ==
  IF i > Len(A.rules) \/ A.errors # <<>> THEN A
  ELSE checkRules_AbortsOnThrow(
         IF A.rules[i].enabled THEN tryEvaluateRule(A, i, samples[i], t) ELSE A,
         i + 1, samples, t)

(* the loop of checkAlerts over the rules in insertion order, from position i *)
RECURSIVE checkRules(_, _, _, _)
checkRules(A, i, samples, t) ==
  IF i > Len(A.rules) THEN A
  ELSE checkRules(IF A.rules[i].enabled THEN tryEvaluateRule(A, i, samples[i], t) ELSE A,
                  i + 1, samples, t)

(* what the metric source held for the rule at this tick: the truth of the
   rule's condition on the sample, before getMetricValue turns it into a reading *)
ConditionHolds(rule, sample) ==
  sample # Null /\ evaluateCondition(sample, rule.condition, rule.threshold)

(* Array.prototype.sort((a, b) => b.triggeredAt - a.triggeredAt): stable,
   descending by triggeredAt *)
RECURSIVE SortByTriggeredAtDesc(_)
SortByTriggeredAtDesc(s) ==
  IF s = <<>> THEN <<>>
  ELSE LET rest == SortByTriggeredAtDesc(Tail(s))
           before == SelectSeq(rest, LAMBDA e : e.triggeredAt > Head(s).triggeredAt)
           after == SelectSeq(rest, LAMBDA e : e.triggeredAt <= Head(s).triggeredAt)
       IN before \o <<Head(s)>> \o after

(* Object.assign(rule, updates) *)
ObjectAssign(rule, updates) ==
  [f \in DOMAIN rule |-> IF f \in DOMAIN updates THEN updates[f] ELSE rule[f]]

----------------------------------------------------------------------------
(* State after construction of the singletons *)

OpKinds == {"call", "traffic", "config", "tick", "admin"}

NoResult == [op |-> "none"]

(* new AlertingSystem() without options, WEBHOOK_URL not set *)
InitEvaluator ==
  /\ alertConfig = AlertingConfig([checkInterval |-> 0, maxAlerts |-> 0])
  /\ channels = initializeDefaultChannels(FALSE)

InitBase ==
  /\ now = 0
  /\ configError = FALSE
  /\ result = NoResult
  /\ rules = initializeDefaultRules
  /\ activeAlerts = << >>
  /\ alertHistory = <<>>
  /\ notifications = <<>>
  /\ isRunning = FALSE
  /\ heldSince = [r \in RuleIds |-> Null]
  /\ suppression = [r \in RuleIds |-> [until |-> Null, sent |-> 0]]
  /\ inFlight = <<>>
  /\ opCount = [k \in OpKinds |-> 0]

(* the monitor and the limiter right after construction *)
InitLogs ==
  /\ requestHistory = <<>>
  /\ responseTimeHistory = <<>>
  /\ errorHistory = <<>>
  /\ trafficStats = InitialStats(0)
  /\ userPatterns = [i \in Identifiers |-> NoProfile]
  /\ lastAdjustment = 0

Count(kind) == [opCount EXCEPT ![kind] = @ + 1]

----------------------------------------------------------------------------
(* Operations of the limiter, the monitor and the configuration *)

RequestBatches == {1, 2, 90000}
ResponseKinds == {[statusCode |-> 500, responseTime |-> 100, n |-> 1],
                  [statusCode |-> 500, responseTime |-> 100, n |-> 900],
                  [statusCode |-> 200, responseTime |-> 1200, n |-> 1]}

(* the clock moves forward to a later reading *)
Advance ==
  /\ \E t \in Instants : t > now /\ now' = t
  /\ UNCHANGED <<config, configError, monitorVars, limiterVars, result, arg,
                 alertVars, opCount>>

(* config.set that assigns before it validates *)
ConfigSet_AssignsFirst(key, value) ==
  /\ opCount["config"] < MaxConfigSets
  /\ config' = [config EXCEPT ![key] = value.number]
  /\ configError' = ~validate(key, value)
  /\ result' = [op |-> "set", key |-> key, value |-> value]
  /\ opCount' = Count("config")
  /\ UNCHANGED <<now, monitorVars, limiterVars, arg, alertVars>>

(* config.set(key, value) *)
ConfigSet(key, value) ==
  /\ opCount["config"] < MaxConfigSets
  /\ IF validate(key, value)
     THEN config' = [config EXCEPT ![key] = value.number] /\ configError' = FALSE
     ELSE config' = config /\ configError' = TRUE
  /\ result' = [op |-> "set", key |-> key, value |-> value]
  /\ opCount' = Count("config")
  /\ UNCHANGED <<now, monitorVars, limiterVars, arg, alertVars>>

(* recordRequest, n requests arriving at the same clock reading *)
RecordRequest(n) ==
  /\ opCount["traffic"] < MaxTraffic
  /\ requestHistory' = recordRequestLog(requestHistory, now, n)
  /\ trafficStats' = [trafficStats EXCEPT !.totalRequests = @ + n]
  /\ result' = [op |-> "recordRequest", n |-> n]
  /\ opCount' = Count("traffic")
  /\ UNCHANGED <<now, config, configError, responseTimeHistory, errorHistory,
                 limiterVars, arg, alertVars>>

(* recordResponse, n responses completing at the same clock reading *)
RecordResponse(statusCode, responseTime, n) ==
  /\ opCount["traffic"] < MaxTraffic
  /\ responseTimeHistory' =
       recordResponseLog(responseTimeHistory, now, statusCode, responseTime, n)
  /\ errorHistory' = recordResponseErrors(errorHistory, now, statusCode, n)
  /\ trafficStats' = [trafficStats EXCEPT
                        !.totalErrors = IF statusCode >= 400 THEN @ + n ELSE @]
  /\ result' = [op |-> "recordResponse", n |-> n, statusCode |-> statusCode]
  /\ opCount' = Count("traffic")
  /\ UNCHANGED <<now, config, configError, requestHistory, limiterVars, arg, alertVars>>

(* getCurrentStats; again: the operation before it was getCurrentStats at the
   same clock reading *)
GetCurrentStats ==
  /\ opCount["call"] < MaxCalls
  /\ trafficStats' = calculateStats(requestHistory, responseTimeHistory,
                                    errorHistory, trafficStats, now)
  /\ result' = [op |-> "getCurrentStats", stats |-> trafficStats',
                again |-> result.op = "getCurrentStats" /\ result.stats.lastUpdated = now]
  /\ opCount' = Count("call")
  /\ UNCHANGED <<now, config, configError, requestHistory, responseTimeHistory,
                 errorHistory, limiterVars, arg, alertVars>>

(* reset that keeps the peaks *)
Reset_KeepsPeaks ==
  /\ opCount["admin"] < MaxAdmin
  /\ requestHistory' = <<>>
  /\ errorHistory' = <<>>
  /\ responseTimeHistory' = <<>>
  /\ trafficStats' = [InitialStats(now) EXCEPT
                        !.peakRequestsPerSecond = trafficStats.peakRequestsPerSecond,
                        !.peakResponseTime = trafficStats.peakResponseTime]
  /\ result' = [op |-> "reset"]
  /\ opCount' = Count("admin")
  /\ UNCHANGED <<now, config, configError, limiterVars, arg, alertVars>>

(* reset() *)
Reset ==
  /\ opCount["admin"] < MaxAdmin
  /\ requestHistory' = <<>>
  /\ errorHistory' = <<>>
  /\ responseTimeHistory' = <<>>
  /\ trafficStats' = InitialStats(now)
  /\ result' = [op |-> "reset"]
  /\ opCount' = Count("admin")
  /\ UNCHANGED <<now, config, configError, limiterVars, arg, alertVars>>

(* the cleanup timer fires: the clock is at its next multiple of the period,
   the callback runs *)
MonitorTick ==
  /\ opCount["tick"] < MaxTicks
  /\ now' = (now \div MonitorInterval + 1) * MonitorInterval
  /\ LET M == monitorTick([requestHistory |-> requestHistory,
                           responseTimeHistory |-> responseTimeHistory,
                           errorHistory |-> errorHistory,
                           trafficStats |-> trafficStats], now')
     IN /\ requestHistory' = M.requestHistory
        /\ responseTimeHistory' = M.responseTimeHistory
        /\ errorHistory' = M.errorHistory
        /\ trafficStats' = M.trafficStats
  /\ result' = [op |-> "monitorTick"]
  /\ opCount' = Count("tick")
  /\ UNCHANGED <<config, configError, limiterVars, arg, alertVars>>

(* clock readings between two firings of the cleanup timer *)
BetweenTicks == {3601000}

(* the clock moves forward to a reading before the next firing of the timer *)
Elapse ==
  /\ \E t \in BetweenTicks :
       /\ t > now
       /\ t < (now \div MonitorInterval + 1) * MonitorInterval
       /\ now' = t
  /\ UNCHANGED <<config, configError, monitorVars, limiterVars, result, arg,
                 alertVars, opCount>>

(* getSystemHealth() *)
GetSystemHealth ==
  /\ opCount["call"] < MaxCalls
  /\ trafficStats' = calculateStats(requestHistory, responseTimeHistory,
                                    errorHistory, trafficStats, now)
  /\ LET health == getSystemHealth(trafficStats', config)
     IN result' = [op |-> "getSystemHealth", status |-> health.status,
                   metrics |-> health.metrics, thresholds |-> health.thresholds]
  /\ opCount' = Count("call")
  /\ UNCHANGED <<now, config, configError, requestHistory, responseTimeHistory,
                 errorHistory, limiterVars, arg, alertVars>>

LimiterState ==
  [trafficStats |-> trafficStats, userPatterns |-> userPatterns,
   lastAdjustment |-> lastAdjustment]

(* calculateDynamicLimit(identifier, requestData) *)
CalculateDynamicLimit(identifier) ==
  /\ opCount["call"] < MaxCalls
  /\ LET r == calculateDynamicLimit(LimiterState, identifier, now, config)
     IN /\ trafficStats' = r.S.trafficStats
        /\ userPatterns' = r.S.userPatterns
        /\ lastAdjustment' = r.S.lastAdjustment
        /\ result' = r.ret
  /\ opCount' = Count("call")
  /\ UNCHANGED <<now, config, configError, requestHistory, responseTimeHistory,
                 errorHistory, arg, alertVars>>

(* the handler of createDAASRMiddleware, for a rejected request *)
LimitExceeded(identifier) ==
  /\ opCount["call"] < MaxCalls
  /\ LET r == limitHandler(LimiterState, identifier, now, config)
     IN /\ trafficStats' = r.S.trafficStats
        /\ userPatterns' = r.S.userPatterns
        /\ lastAdjustment' = r.S.lastAdjustment
        /\ result' = r.ret
  /\ opCount' = Count("call")
  /\ UNCHANGED <<now, config, configError, requestHistory, responseTimeHistory,
                 errorHistory, arg, alertVars>>

(* limits and window sizes handed to handleRateLimit *)
RejectedLimits == {100}
RejectedWindows == {900000, 1500}

(* handleRateLimit(req, res, limit, windowSize) for a request of identifier:
   the offense is recorded and the response written *)
HandleRateLimit(identifier, limit, windowSize) ==
  /\ opCount["call"] < MaxCalls
  /\ userPatterns' = handleRateLimit(userPatterns, identifier, now)
  /\ arg' = [limit |-> limit, windowSize |-> windowSize]
  /\ result' = [op |-> "handleRateLimit", identifier |-> identifier,
                status |-> 429, limit |-> limit,
                retryAfter |-> CeilDiv(windowSize, 1000),
                algorithm |-> "DAASR-v1", timestamp |-> now]
  /\ opCount' = Count("call")
  /\ UNCHANGED <<now, config, configError, monitorVars, lastAdjustment, alertVars>>

(* an inbound request of identifier handled by the middleware *)
InboundRequest(identifier, perRequestWindow, rejected) ==
  /\ opCount["call"] < MaxCalls
  /\ LET r == middleware(LimiterState, identifier, now, config, perRequestWindow, rejected)
     IN /\ trafficStats' = r.S.trafficStats
        /\ userPatterns' = r.S.userPatterns
        /\ lastAdjustment' = r.S.lastAdjustment
        /\ result' = r.ret
  /\ opCount' = Count("call")
  /\ UNCHANGED <<now, config, configError, requestHistory, responseTimeHistory,
                 errorHistory, arg, alertVars>>

(* calculateUserReputation(identifier), called on its own *)
CalculateUserReputation(identifier) ==
  /\ opCount["call"] < MaxCalls
  /\ result' = [op |-> "calculateUserReputation", identifier |-> identifier,
                value |-> calculateUserReputation(userPatterns, identifier)]
  /\ opCount' = Count("call")
  /\ UNCHANGED <<now, config, configError, monitorVars, limiterVars, arg, alertVars>>

----------------------------------------------------------------------------
(* Operations of the alert evaluator *)

(* one sample of the metric source per rule, for the rules from position i on *)
RECURSIVE SampleVectors(_, _, _)
SampleVectors(values, rs, i) ==
  IF i > Len(rs) THEN {<<>>}
  ELSE {<<v>> \o rest : v \in MetricSamples(values, rs[i].metric),
                        rest \in SampleVectors(values, rs, i + 1)}

(* start() *)
Start ==
  /\ ~isRunning
  /\ isRunning' = TRUE
  /\ result' = [op |-> "start"]
  /\ UNCHANGED <<now, config, configError, monitorVars, limiterVars, arg, alertConfig,
                 rules, channels, activeAlerts, alertHistory, notifications,
                 heldSince, suppression, opCount, inFlight>>

(* the setInterval callback: checkInterval later, checkAlerts runs.  values:
   what the metric source can produce; throwSets: the sets of events whose
   listener may throw; failSets: the sets of channels that may fail *)
checkAlerts(values, throwSets, failSets, awaits) ==
  /\ isRunning
  /\ opCount["tick"] < MaxTicks
  /\ now' = now + alertConfig.checkInterval
  /\ \E samples \in SampleVectors(values, rules, 1), throws \in throwSets, failing \in failSets :
       /\ \E A \in {checkRules([rules |-> rules, activeAlerts |-> activeAlerts,
                               alertHistory |-> alertHistory, channels |-> channels,
                               notifications |-> notifications,
                               triggered |-> {}, resolved |-> {},
                               evaluated |-> <<>>, emitted |-> <<>>, errors |-> <<>>,
                               thrown |-> FALSE, listenerThrows |-> throws,
                               failing |-> failing, awaits |-> awaits,
                               inFlight |-> inFlight],
                              1, samples, now')} :
             /\ rules' = A.rules
             /\ channels' = A.channels
             /\ activeAlerts' = A.activeAlerts
             /\ alertHistory' = cleanupResolvedAlerts(A.alertHistory, now', alertConfig.maxAlerts)
             /\ notifications' = A.notifications
             /\ inFlight' = A.inFlight
             /\ result' = [op |-> "checkAlerts", triggered |-> A.triggered,
                           resolved |-> A.resolved, evaluated |-> A.evaluated,
                           emitted |-> A.emitted, errors |-> A.errors,
                           readings |-> [j \in 1..Len(rules) |-> getMetricValue(samples[j])],
                           samples |-> samples,
                           archived |-> SubSeq(A.alertHistory, Len(alertHistory) + 1,
                                               Len(A.alertHistory))]
             /\ heldSince' =
                  [r \in RuleIds |->
                     LET i == RuleIndex(rules, r)
                     IN IF rules[i].enabled /\ ConditionHolds(rules[i], samples[i])
                        THEN (IF heldSince[r] = Null THEN now' ELSE heldSince[r])
                        ELSE Null]
  /\ opCount' = Count("tick")
  /\ UNCHANGED <<config, configError, monitorVars, limiterVars, arg, alertConfig,
                 isRunning, suppression>>

(* a tick with every listener and every channel working *)
Tick == checkAlerts(MetricValues, {{}}, {{}}, FALSE)

ListenerFailures == {{}, {"alertTriggered", "alertResolved"}}
ChannelFailures == {{}, {"webhook"}}

(* a tick of the two-level metric source with every listener and channel working *)
SteadyTick == checkAlerts(TwoLevelMetricValues, {{}}, {{}}, FALSE)

(* a tick in which listeners may throw and the webhook may fail *)
FaultyTick == checkAlerts(TwoLevelMetricValues, ListenerFailures, ChannelFailures, FALSE)

(* a tick whose webhook deliveries stay in flight *)
AwaitingTick == checkAlerts(TwoLevelMetricValues, {{}}, {{}}, TRUE)

RemoveAt(s, k) == SubSeq(s, 1, k - 1) \o SubSeq(s, k + 1, Len(s))

(* the webhook answers the request of the k-th delivery in flight (ok: with a
   success status): the loop of sendNotifications / sendResolutionNotification
   that waited for it records the outcome and goes on with its next channels *)
FetchCompletes(k, ok) ==
  /\ k \in 1..Len(inFlight)
  /\ LET d == inFlight[k]
         c == d.channelIds[d.j]
         attempt == [kind |-> d.kind, alertId |-> d.alert.id, ruleId |-> d.alert.ruleId,
                     channel |-> c, at |-> now,
                     outcome |-> IF ok THEN "delivered" ELSE "failed"]
         counted == IF ok /\ d.kind = "trigger" /\ c \in DOMAIN channels
                    THEN [channels EXCEPT ![c].lastUsed = now, ![c].messageCount = @ + 1]
                    ELSE channels
         B == Deliveries([channels |-> counted,
                          notifications |-> Append(notifications, attempt),
                          inFlight |-> RemoveAt(inFlight, k),
                          failing |-> {}, awaits |-> TRUE],
                         d.kind, d.alert, d.channelIds, d.j + 1, now)
     IN /\ channels' = B.channels
        /\ notifications' = B.notifications
        /\ inFlight' = B.inFlight
        /\ result' = [op |-> "fetchCompletes", kind |-> d.kind, alertId |-> d.alert.id,
                      channel |-> c, ok |-> ok]
  /\ UNCHANGED <<now, config, configError, monitorVars, limiterVars, arg, alertConfig,
                 rules, activeAlerts, alertHistory, isRunning, heldSince, suppression,
                 opCount>>

(* suppressAlert(alertId, duration) *)
SuppressDurations == {60000, 300000}
NoSuchAlert == <<"no_such_alert", 0>>

(* suppressAlert that silences every active alert *)
SuppressAlert_AllAlerts(alertId, duration) ==
  /\ opCount["admin"] < MaxAdmin
  /\ LET found == {k \in DOMAIN activeAlerts : activeAlerts[k].id = alertId}
     IN IF found # {}
        THEN LET key == CHOOSE k \in found : TRUE
             IN /\ activeAlerts' = [k \in DOMAIN activeAlerts |->
                                      [activeAlerts[k] EXCEPT !.suppressedUntil = now + duration]]
                /\ suppression' = [suppression EXCEPT
                                     ![key] = [until |-> now + duration,
                                               sent |-> Len(notifications)]]
                /\ result' = [op |-> "suppressAlert", alertId |-> alertId,
                              duration |-> duration, value |-> TRUE]
        ELSE /\ UNCHANGED <<activeAlerts, suppression>>
             /\ result' = [op |-> "suppressAlert", alertId |-> alertId,
                           duration |-> duration, value |-> FALSE]
  /\ opCount' = Count("admin")
  /\ UNCHANGED <<now, config, configError, monitorVars, limiterVars, arg, alertConfig,
                 rules, channels, alertHistory, notifications, isRunning, heldSince,
                 inFlight>>

SuppressAlert(alertId, duration) ==
  /\ opCount["admin"] < MaxAdmin
  /\ LET found == {k \in DOMAIN activeAlerts : activeAlerts[k].id = alertId}
     IN IF found # {}
        THEN LET key == CHOOSE k \in found : TRUE
             IN /\ activeAlerts' = [activeAlerts EXCEPT ![key].suppressedUntil = now + duration]
                /\ suppression' = [suppression EXCEPT
                                     ![key] = [until |-> now + duration,
                                               sent |-> Len(notifications)]]
                /\ result' = [op |-> "suppressAlert", alertId |-> alertId,
                              duration |-> duration, value |-> TRUE]
        ELSE /\ UNCHANGED <<activeAlerts, suppression>>
             /\ result' = [op |-> "suppressAlert", alertId |-> alertId,
                           duration |-> duration, value |-> FALSE]
  /\ opCount' = Count("admin")
  /\ UNCHANGED <<now, config, configError, monitorVars, limiterVars, arg, alertConfig,
                 rules, channels, alertHistory, notifications, isRunning, heldSince,
                 inFlight>>

(* updateRule(ruleId, updates) *)
RuleUpdates ==
  {<<"critical_cpu_usage", [enabled |-> FALSE]>>,
   <<"critical_cpu_usage", [channels |-> <<"webhook", "console", "logfile">>]>>,
   <<"critical_cpu_usage", [metric |-> "custom.unknown"]>>,
   <<"no_such_rule", [enabled |-> FALSE]>>}

UpdateRule(ruleId, updates) ==
  /\ opCount["admin"] < MaxAdmin
  /\ LET found == {i \in 1..Len(rules) : rules[i].id = ruleId}
     IN IF found # {}
        THEN rules' = [rules EXCEPT ![CHOOSE i \in found : TRUE] = ObjectAssign(@, updates)]
        ELSE rules' = rules
  /\ result' = [op |-> "updateRule", ruleId |-> ruleId, updates |-> updates]
  /\ opCount' = Count("admin")
  /\ UNCHANGED <<now, config, configError, monitorVars, limiterVars, arg, alertConfig,
                 channels, activeAlerts, alertHistory, notifications, isRunning,
                 heldSince, suppression, inFlight>>

(* rules handed to addRule: under a new id and under the id of a default rule *)
NewRules ==
  {[id |-> "cpu_about_half", metric |-> "system.cpu.overall", condition |-> "approximately",
    threshold |-> 50, duration |-> 30000, severity |-> "warning"],
   [id |-> "critical_cpu_usage", metric |-> "system.cpu.overall", condition |-> "greater_than",
    threshold |-> 95, duration |-> -30000, severity |-> "critical"],
   [id |-> "idle_cpu", metric |-> "system.cpu.overall", condition |-> "less_than",
    threshold |-> 60, duration |-> 30000, severity |-> "warning"]}

(* addRule(rule): Map.set under rule.id, a known id keeps its place *)
AddRule(rule) ==
  /\ opCount["admin"] < MaxAdmin
  /\ LET stored == addRule(rule.id, rule.metric, rule.condition, rule.threshold,
                           rule.duration, rule.severity)
         found == {i \in 1..Len(rules) : rules[i].id = rule.id}
     IN IF found # {}
        THEN rules' = [rules EXCEPT ![CHOOSE i \in found : TRUE] = stored]
        ELSE rules' = Append(rules, stored)
  /\ result' = [op |-> "addRule", ruleId |-> rule.id, rule |-> rule]
  /\ opCount' = Count("admin")
  /\ UNCHANGED <<now, config, configError, monitorVars, limiterVars, arg, alertConfig,
                 channels, activeAlerts, alertHistory, notifications, isRunning,
                 heldSince, suppression, inFlight>>

(* updates handed to updateRule by an administrator *)
AdminUpdates ==
  {<<"critical_cpu_usage", [condition |-> "approximately"]>>,
   <<"critical_cpu_usage", [duration |-> -30000]>>,
   <<"critical_cpu_usage", [threshold |-> 90]>>}

(* getAlertHistory(limit): sorts the stored array, returns its first limit entries *)
HistoryLimit == 100

GetAlertHistory(limit) ==
  /\ opCount["admin"] < MaxAdmin
  /\ alertHistory' = SortByTriggeredAtDesc(alertHistory)
  /\ result' = [op |-> "getAlertHistory",
                value |-> SubSeq(alertHistory', 1, Min(limit, Len(alertHistory')))]
  /\ opCount' = Count("admin")
  /\ UNCHANGED <<now, config, configError, monitorVars, limiterVars, arg, alertConfig,
                 rules, channels, activeAlerts, notifications, isRunning,
                 heldSince, suppression, inFlight>>

----------------------------------------------------------------------------
(* Pure functions applied to an argument *)

RpsInputs == {0, 5, 10, 11, 50, 51, 100, 101, 150, 500, 501, 750, 1000, 1001, 1500}
ErrorRateInputs ==
  {<<0, 1>>, <<1, 100>>, <<5, 100>>, <<6, 100>>, <<8, 100>>, <<1, 10>>, <<15, 100>>, <<1, 2>>}
ResponseTimeInputs == {200, 500, 501, 1000, 1001}

Snapshots ==
  {[requestsPerSecond |-> r, averageResponseTime |-> a,
    errorRate |-> [num |-> e[1], den |-> e[2]]] :
     r \in RpsInputs, a \in ResponseTimeInputs, e \in ErrorRateInputs}

ApplyTrafficMultiplier ==
  /\ result' = [op |-> "calculateTrafficMultiplier", value |-> calculateTrafficMultiplier(arg)]
  /\ UNCHANGED <<now, config, configError, monitorVars, limiterVars, arg, alertVars, opCount>>

ApplyWindowSize ==
  /\ result' = [op |-> "calculateWindowSize", value |-> calculateWindowSize(arg)]
  /\ UNCHANGED <<now, config, configError, monitorVars, limiterVars, arg, alertVars, opCount>>

ApplyHealthStatus ==
  /\ result' = [op |-> "calculateHealthStatus", status |-> calculateHealthStatus(arg)]
  /\ UNCHANGED <<now, config, configError, monitorVars, limiterVars, arg, alertVars, opCount>>

----------------------------------------------------------------------------
(* Specifications *)

(* configurations loadConfig accepts *)
LoadedConfigs ==
  {c \in {loadConfig(env) : env \in Environments} :
     \A k \in ConfigKeys : SchemaAccepts(k, c[k])}

(* Traffic the monitor has recorded at clock reading 0: requests, then responses *)
TrafficScenarios ==
  {[requests |-> 0, responses |-> <<>>],
   [requests |-> 90000, responses |-> <<[statusCode |-> 500, responseTime |-> 100, n |-> 900]>>],
   [requests |-> 6060, responses |-> <<[statusCode |-> 200, responseTime |-> 100, n |-> 1]>>],
   [requests |-> 2, responses |-> <<[statusCode |-> 500, responseTime |-> 100, n |-> 1]>>],
   [requests |-> 1, responses |-> <<[statusCode |-> 200, responseTime |-> 1200, n |-> 1]>>]}

RECURSIVE recordResponses(_, _, _)
recordResponses(M, responses, t) ==
  IF responses = <<>> THEN M
  ELSE LET r == Head(responses)
       IN recordResponses(
            [M EXCEPT
               !.responseTimeHistory = recordResponseLog(@, t, r.statusCode, r.responseTime, r.n),
               !.errorHistory = recordResponseErrors(@, t, r.statusCode, r.n),
               !.trafficStats.totalErrors = IF r.statusCode >= 400 THEN @ + r.n ELSE @],
            Tail(responses), t)

(* the monitor after a scenario recorded at clock reading t *)
Recorded(scenario, t) ==
  recordResponses(
    [requestHistory |-> IF scenario.requests = 0 THEN <<>>
                        ELSE recordRequestLog(<<>>, t, scenario.requests),
     responseTimeHistory |-> <<>>, errorHistory |-> <<>>,
     trafficStats |-> [InitialStats(t) EXCEPT !.totalRequests = scenario.requests]],
    scenario.responses, t)

(* What the first identifier has done at clock reading 0: quota computations,
   then rejected requests *)
WarmUps ==
  {[calls |-> 0, rejected |-> 0], [calls |-> 9, rejected |-> 0],
   [calls |-> 50, rejected |-> 0], [calls |-> 100, rejected |-> 0],
   [calls |-> 0, rejected |-> 2], [calls |-> 0, rejected |-> 5]}

WarmedUp(S, identifier, w, t, cfg) ==
  LET called == IF w.calls = 0 THEN S
                ELSE calculateDynamicLimitTimes(S, identifier, t, cfg, w.calls).S
  IN IF w.rejected = 0 THEN called
     ELSE limitHandlerTimes(called, identifier, t, cfg, w.rejected).S

(* the limiter on its request path: the process has loaded its configuration,
   the monitor has recorded a traffic scenario and the first identifier has a
   past, all at clock reading 0 *)
Init ==
  /\ InitBase
  /\ InitEvaluator
  /\ arg = NoResult
  /\ config \in LoadedConfigs
  /\ configError = FALSE
  /\ \E scenario \in TrafficScenarios :
       /\ requestHistory = Recorded(scenario, 0).requestHistory
       /\ responseTimeHistory = Recorded(scenario, 0).responseTimeHistory
       /\ errorHistory = Recorded(scenario, 0).errorHistory
       /\ \E w \in WarmUps :
            LET S == WarmedUp([trafficStats |-> Recorded(scenario, 0).trafficStats,
                               userPatterns |-> [i \in Identifiers |-> NoProfile],
                               lastAdjustment |-> 0], "ip1", w, 0, config)
            IN /\ trafficStats = S.trafficStats
               /\ userPatterns = S.userPatterns
               /\ lastAdjustment = S.lastAdjustment

Next ==
  \/ Advance
  \/ \E id \in Identifiers : CalculateDynamicLimit(id)
  \/ \E id \in Identifiers : LimitExceeded(id)
  \/ \E id \in Identifiers : CalculateUserReputation(id)

Spec == Init /\ [][Next]_vars

(* the monitor from construction on *)
InitMonitor ==
  /\ InitBase
  /\ InitEvaluator
  /\ InitLogs
  /\ arg = NoResult
  /\ config = loadConfig([k \in ConfigKeys |-> 0])

NextMonitor ==
  \/ Advance
  \/ \E n \in RequestBatches : RecordRequest(n)
  \/ \E r \in ResponseKinds : RecordResponse(r.statusCode, r.responseTime, r.n)
  \/ GetCurrentStats

SpecMonitor == InitMonitor /\ [][NextMonitor]_vars

(* the monitor under light traffic *)
LightBatches == {1, 45, 90}

NextRates ==
  \/ Advance
  \/ \E n \in LightBatches : RecordRequest(n)
  \/ GetCurrentStats

SpecRates == InitMonitor /\ [][NextRates]_vars

(* recordRequest n times at t on the monitor M *)
recordRequests(M, t, n) ==
  [M EXCEPT !.requestHistory = recordRequestLog(@, t, n),
            !.trafficStats.totalRequests = @ + n]

(* the monitor 59 minutes after its construction at clock reading 0: two
   requests and an error response at 1000, a request at 60000 right after the
   first firing of the timer, a request and a slow response at 3500000, the
   timer having fired every minute up to 3540000 (the firings between 120000
   and 3480000 find empty windows and leave what the one of 3480000 leaves) *)
HourOfTraffic ==
  LET constructed == [requestHistory |-> <<>>, responseTimeHistory |-> <<>>,
                      errorHistory |-> <<>>, trafficStats |-> InitialStats(0)]
      first == recordResponses(recordRequests(constructed, 1000, 2),
                               <<[statusCode |-> 500, responseTime |-> 100, n |-> 1]>>, 1000)
      second == recordRequests(monitorTick(first, 60000), 60000, 1)
      quiet == monitorTick(monitorTick(second, 120000), 3480000)
      last == recordResponses(recordRequests(quiet, 3500000, 1),
                              <<[statusCode |-> 200, responseTime |-> 1200, n |-> 1]>>, 3500000)
  IN monitorTick(last, 3540000)

FewResponses == {[statusCode |-> 500, responseTime |-> 100, n |-> 1]}

InitCleanup ==
  /\ now = 3540000
  /\ configError = FALSE
  /\ result = NoResult
  /\ arg = NoResult
  /\ config = loadConfig([k \in ConfigKeys |-> 0])
  /\ requestHistory = HourOfTraffic.requestHistory
  /\ responseTimeHistory = HourOfTraffic.responseTimeHistory
  /\ errorHistory = HourOfTraffic.errorHistory
  /\ trafficStats = HourOfTraffic.trafficStats
  /\ userPatterns = [i \in Identifiers |-> NoProfile]
  /\ lastAdjustment = 0
  /\ InitEvaluator
  /\ rules = initializeDefaultRules
  /\ activeAlerts = << >>
  /\ alertHistory = <<>>
  /\ notifications = <<>>
  /\ isRunning = FALSE
  /\ heldSince = [r \in RuleIds |-> Null]
  /\ suppression = [r \in RuleIds |-> [until |-> Null, sent |-> 0]]
  /\ inFlight = <<>>
  /\ opCount = [k \in OpKinds |-> 0]

(* the monitor at the end of its first hour: request handlers, the cleanup
   timer and statistics queries in any order *)
NextCleanup ==
  \/ Elapse
  \/ MonitorTick
  \/ RecordRequest(1)
  \/ \E r \in FewResponses : RecordResponse(r.statusCode, r.responseTime, r.n)
  \/ GetCurrentStats
  \/ Reset

SpecCleanup == InitCleanup /\ [][NextCleanup]_vars

(* the monitor with its administrative reset *)
BusyBatches == {90000}

NextReset ==
  \/ Advance
  \/ \E n \in BusyBatches : RecordRequest(n)
  \/ \E r \in ResponseKinds : RecordResponse(r.statusCode, r.responseTime, r.n)
  \/ GetCurrentStats
  \/ Reset

SpecReset == InitMonitor /\ [][NextReset]_vars

(* the monitor's health report under the thresholds of the configuration *)
ThresholdValues ==
  [highTrafficThreshold |-> {JsNumber(50)},
   criticalResponseTime |-> {JsNumber(2000)}]

HealthBatches == {6060}
SlowResponses == {[statusCode |-> 200, responseTime |-> 1200, n |-> 1]}

InitHealth ==
  /\ InitBase
  /\ InitEvaluator
  /\ InitLogs
  /\ arg = NoResult
  /\ config = loadConfig([k \in ConfigKeys |-> 0]) @@ loadThresholds

NextHealth ==
  \/ Advance
  \/ \E n \in HealthBatches : RecordRequest(n)
  \/ \E r \in SlowResponses : RecordResponse(r.statusCode, r.responseTime, r.n)
  \/ \E key \in DOMAIN ThresholdValues : \E value \in ThresholdValues[key] :
       ConfigSet(key, value)
  \/ GetSystemHealth

SpecHealth == InitHealth /\ [][NextHealth]_vars

(* the configuration from loadConfig on, and the quota computed under it *)
InitConfig ==
  /\ InitBase
  /\ InitEvaluator
  /\ InitLogs
  /\ arg = NoResult
  /\ config = loadConfig([k \in ConfigKeys |-> 0])

NextConfig ==
  \/ \E key \in ConfigKeys : \E value \in SetValues[key] : ConfigSet(key, value)
  \/ \E id \in Identifiers : CalculateDynamicLimit(id)

SpecConfig == InitConfig /\ [][NextConfig]_vars

(* rejected requests and the quotas computed after them *)
NextOffenses ==
  \/ Advance
  \/ \E id \in Identifiers : CalculateDynamicLimit(id)
  \/ \E id \in Identifiers, limit \in RejectedLimits, windowSize \in RejectedWindows :
       HandleRateLimit(id, limit, windowSize)

SpecOffenses == Init /\ [][NextOffenses]_vars

(* inbound requests through the middleware *)
NextMiddleware ==
  \/ Advance
  \/ \E id \in Identifiers, perRequestWindow \in BOOLEAN, rejected \in BOOLEAN :
       InboundRequest(id, perRequestWindow, rejected)

SpecMiddleware == Init /\ [][NextMiddleware]_vars

(* the pure functions of the limiter on every snapshot *)
InitPure ==
  /\ InitBase
  /\ InitEvaluator
  /\ InitLogs
  /\ config = loadConfig([k \in ConfigKeys |-> 0])
  /\ arg \in Snapshots

NextPure == ApplyTrafficMultiplier \/ ApplyWindowSize \/ ApplyHealthStatus

SpecPure == InitPure /\ [][NextPure]_vars

(* the alert evaluator *)
InitAlerts ==
  /\ InitBase
  /\ InitEvaluator
  /\ InitLogs
  /\ arg = NoResult
  /\ config = loadConfig([k \in ConfigKeys |-> 0])

NextAlerts == Start \/ Tick

SpecAlerts == InitAlerts /\ [][NextAlerts]_vars

(* Options handed to new AlertingSystem(options): none; a small history cap;
   a check every 12 hours *)
AlertingOptions ==
  {[checkInterval |-> 0, maxAlerts |-> 0],
   [checkInterval |-> 0, maxAlerts |-> 2],
   [checkInterval |-> 43200000, maxAlerts |-> 0]}

(* new AlertingSystem(options) with WEBHOOK_URL set or not *)
InitEvaluatorWith(optionSets, webhooks) ==
  /\ InitBase
  /\ InitLogs
  /\ arg = NoResult
  /\ config = loadConfig([k \in ConfigKeys |-> 0])
  /\ \E options \in optionSets : alertConfig = AlertingConfig(options)
  /\ \E webhook \in webhooks : channels = initializeDefaultChannels(webhook)

(* the alert evaluator with suppressAlert *)
InitSuppress == InitEvaluatorWith({[checkInterval |-> 0, maxAlerts |-> 0]}, {FALSE})

NextSuppress ==
  \/ Start
  \/ SteadyTick
  \/ \E k \in DOMAIN activeAlerts, d \in SuppressDurations : SuppressAlert(activeAlerts[k].id, d)
  \/ \E d \in SuppressDurations : SuppressAlert(NoSuchAlert, d)

SpecSuppress == InitSuppress /\ [][NextSuppress]_vars

(* the alert evaluator with updateRule, listeners that may throw and a
   webhook channel that may fail *)
InitRules == InitEvaluatorWith({[checkInterval |-> 0, maxAlerts |-> 0]}, {TRUE})

NextRules ==
  \/ Start
  \/ FaultyTick
  \/ \E u \in RuleUpdates : UpdateRule(u[1], u[2])

SpecRules == InitRules /\ [][NextRules]_vars

(* the alert evaluator with its history queries, under each set of options *)
InitHistory == InitEvaluatorWith(AlertingOptions, {FALSE})

NextHistory == Start \/ SteadyTick \/ GetAlertHistory(HistoryLimit)

SpecHistory == InitHistory /\ [][NextHistory]_vars

(* the evaluator with its rule administration *)
InitAdmin == InitEvaluatorWith({[checkInterval |-> 0, maxAlerts |-> 0]}, {FALSE})

NextAdmin ==
  \/ Start
  \/ SteadyTick
  \/ \E rule \in NewRules : AddRule(rule)
  \/ \E u \in AdminUpdates : UpdateRule(u[1], u[2])

SpecAdmin == InitAdmin /\ [][NextAdmin]_vars

(* the evaluator with a webhook whose answers arrive at any later moment *)
ChannelUpdates ==
  {<<"critical_cpu_usage", [channels |-> <<"webhook", "console", "logfile">>]>>}

InitAwaits == InitEvaluatorWith({[checkInterval |-> 0, maxAlerts |-> 0]}, {TRUE})

NextAwaits ==
  \/ Start
  \/ AwaitingTick
  \/ \E u \in ChannelUpdates : UpdateRule(u[1], u[2])
  \/ \E k \in 1..Len(inFlight), ok \in BOOLEAN : FetchCompletes(k, ok)

SpecAwaits == InitAwaits /\ [][NextAwaits]_vars

----------------------------------------------------------------------------
(* Properties *)

(* number of array elements of a run-length encoded array at the positions I *)
RECURSIVE CountAt(_, _)
CountAt(log, I) ==
  IF I = {} THEN 0
  ELSE LET i == CHOOSE j \in I : TRUE IN log[i].count + CountAt(log, I \ {i})

(* number of elements of log recorded less than w milliseconds before t *)
Younger(log, t, w) == CountAt(log, {i \in 1..Len(log) : t - log[i].timestamp < w})

(* number of elements of log recorded after t - w *)
InWindow(log, t, w) == CountAt(log, {i \in 1..Len(log) : log[i].timestamp > t - w})

(* this step is a quota computation for identifier *)
QuotaStep(identifier) ==
  /\ result'.op = "calculateDynamicLimit"
  /\ result'.identifier = identifier
  /\ opCount'["call"] = opCount["call"] + 1

(* C1: every quota lies between the configured minimum and maximum:
   minRateLimit <= max <= maxRateLimit, for every configuration the
   validation accepts *)
C1_LimitWithinBounds ==
  result.op = "calculateDynamicLimit" =>
    /\ result.baseConfig.minRateLimit <= result.max
    /\ result.max <= result.baseConfig.maxRateLimit

(* clamp(x, lo, hi): x cut down to hi, then raised to lo; for lo <= hi this is
   the point of [lo, hi] nearest to x *)
Clamp(x, lo, hi) == Max(lo, Min(hi, x))

(* the five factors as decimals: tenths, the burst factor hundredths, the
   resource factor 1.0 left out; rounded half up *)
RoundedProduct(base, tm, bf, rep, pf) == (base * tm * bf * rep * pf + 50000) \div 100000

FirstCallAtPeak ==
  /\ result.op = "calculateDynamicLimit"
  /\ result.stats.requestsPerSecond = 1500
  /\ result.stats.errorRate = [num |-> 900, den |-> 90000]
  /\ result.baseConfig = [baseRateLimit |-> 100, minRateLimit |-> 10, maxRateLimit |-> 1000]
  /\ userPatterns[result.identifier].requests = <<[timestamp |-> now, count |-> 1]>>
  /\ ~userPatterns[result.identifier].hasOffenses

(* C2: the quota is clamp(round(base * f_traffic * f_burst * f_resource *
   f_rep * f_penalty), min, max) with f_resource = 1.0, and the first call of
   a new identifier under 1500 requests/sec, 1% errors and the default limits
   gets max = 60 *)
C2_QuotaFormula ==
  /\ result.op = "calculateDynamicLimit" =>
       /\ result.resourceFactor = 10
       /\ result.max =
            Clamp(RoundedProduct(result.baseConfig.baseRateLimit, result.trafficMultiplier,
                                 result.burstFactor, result.reputationFactor,
                                 result.penaltyFactor),
                  result.baseConfig.minRateLimit, result.baseConfig.maxRateLimit)
  /\ FirstCallAtPeak => result.max = 60

C2_Witness == FirstCallAtPeak /\ result.max = 60 /\ result.trafficMultiplier = 5

(* the checks of the traffic multiplier in their order, with their values in tenths *)
TrafficChecks(stats) ==
  << <<stats.requestsPerSecond > 1000, 5>>,
     <<stats.requestsPerSecond > 500, 7>>,
     <<stats.requestsPerSecond > 100, 9>>,
     <<stats.errorRate.num * 10 > stats.errorRate.den, 6>>,
     <<stats.errorRate.num * 20 > stats.errorRate.den, 8>>,
     <<stats.averageResponseTime > 1000, 7>>,
     <<stats.averageResponseTime > 500, 9>>,
     <<TRUE, 10>> >>

FirstMatch(checks) ==
  checks[CHOOSE i \in 1..Len(checks) :
           checks[i][1] /\ \A j \in 1..(i - 1) : ~checks[j][1]][2]

(* C3: the traffic multiplier is the value of the first matching check in the
   order RPS > 1000, > 500, > 100, error rate > 0.10, > 0.05, latency > 1000,
   > 500, else 1.0; with RPS > 1000 it is 0.5 whatever the error rate and latency *)
C3_FirstMatchWins ==
  result.op = "calculateTrafficMultiplier" =>
    /\ result.value = FirstMatch(TrafficChecks(arg))
    /\ arg.requestsPerSecond > 1000 => result.value = 5

C3_Witness ==
  /\ result.op = "calculateTrafficMultiplier"
  /\ arg.requestsPerSecond > 1000
  /\ arg.errorRate.num * 10 > arg.errorRate.den
  /\ arg.averageResponseTime > 1000
  /\ result.value = 5

(* C4: the reputation factor is 1.2 for an identifier with fewer than 10
   recorded requests, one never seen before included, and 1.0 from 10 on *)
C4_Reputation ==
  result.op = "calculateUserReputation" =>
    result.value =
      IF SumCount(userPatterns[result.identifier].requests) < 10 THEN 12 ELSE 10

(* C5: the burst factor of a quota computation is max(0.5, 1 - n/100), n the
   identifier's history entries of the last 60 seconds before the request is
   appended; it lies in [0.5, 1.0] and does not increase with n *)
C5_BurstFactor ==
  [][\A id \in Identifiers :
       QuotaStep(id) =>
         LET n == Younger(userPatterns[id].requests, now, 60000)
         IN /\ result'.burstFactor = (IF 100 - n > 50 THEN 100 - n ELSE 50)
            /\ 50 <= result'.burstFactor /\ result'.burstFactor <= 100
            /\ BurstScore(n + 1) <= result'.burstFactor]_vars

C5_Witness ==
  /\ result.op = "calculateDynamicLimit"
  /\ now = 60000
  /\ \E i \in 1..Len(userPatterns[result.identifier].requests) :
       userPatterns[result.identifier].requests[i].timestamp = 0
  /\ result.burstFactor = 99

(* C6: with k offenses recorded in the last 15 minutes the next quota
   computation uses f_penalty = max(0.5, 1 - 0.1 k): 1.0 for none, 0.7 for 3,
   0.5 for 5 and more *)
C6_PenaltyFactor ==
  [][\A id \in Identifiers :
       QuotaStep(id) =>
         LET k == Younger(userPatterns[id].offenses, now, 900000)
         IN /\ result'.penaltyFactor = (IF 10 - k > 5 THEN 10 - k ELSE 5)
            /\ k = 0 => result'.penaltyFactor = 10
            /\ k = 3 => result'.penaltyFactor = 7
            /\ k >= 5 => result'.penaltyFactor = 5]_vars

C6_Witness ==
  /\ result.op = "calculateDynamicLimit"
  /\ result.penaltyFactor = 5
  /\ SumCount(userPatterns[result.identifier].offenses) = 6

(* C7: an offense stops counting once it is 15 minutes old: a quota
   computation made 15 minutes or more after the identifier's last offense
   uses f_penalty = 1.0, and after a quota computation the offense list holds
   no timestamp that is 15 minutes old or older *)
C7_PenaltyExpires ==
  [][\A id \in Identifiers :
       QuotaStep(id) =>
         /\ (\A i \in 1..Len(userPatterns[id].offenses) :
               now - userPatterns[id].offenses[i].timestamp >= 900000)
              => result'.penaltyFactor = 10
         /\ \A i \in 1..Len(userPatterns'[id].offenses) :
              now - userPatterns'[id].offenses[i].timestamp < 900000]_vars

C7_Witness ==
  /\ result.op = "calculateDynamicLimit"
  /\ now = 900000
  /\ userPatterns[result.identifier].hasOffenses
  /\ userPatterns[result.identifier].offenses = <<>>
  /\ result.penaltyFactor = 10

(* C8: the window size is a step function of requestsPerSecond: 60000 above
   100, 300000 above 10 up to 100, 900000 up to 10; computing it changes no state *)
C8_WindowSize ==
  [][result'.op = "calculateWindowSize" =>
       /\ arg.requestsPerSecond > 100 => result'.value = 60000
       /\ (arg.requestsPerSecond > 10 /\ arg.requestsPerSecond <= 100) => result'.value = 300000
       /\ arg.requestsPerSecond <= 10 => result'.value = 900000
       /\ arg.requestsPerSecond = 5 => result'.value = 900000
       /\ arg.requestsPerSecond = 50 => result'.value = 300000
       /\ arg.requestsPerSecond = 150 => result'.value = 60000
       /\ UNCHANGED <<now, config, monitorVars, limiterVars, arg, alertVars>>]_vars

C8_Witness ==
  /\ result.op = "calculateWindowSize"
  /\ arg.requestsPerSecond = 100
  /\ result.value = 300000

(* C9: getCurrentStats().errorRate is errors of the last 60 seconds divided by
   requests of the last 60 seconds, and 0 when no request lies in the last 60
   seconds *)
C9_ErrorRate ==
  (result.op = "getCurrentStats" /\ result.stats.lastUpdated = now) =>
    LET requests == InWindow(requestHistory, now, 60000)
        errors == InWindow(errorHistory, now, 60000)
    IN IF requests = 0 THEN result.stats.errorRate.num = 0
       ELSE result.stats.errorRate.num * requests = errors * result.stats.errorRate.den

(* C10: a rule triggers at a tick only if its condition was true at every
   tick since the ActiveAlert's startTime and now - startTime >= duration; a
   true reading after a false one starts a new ActiveAlert at that reading *)
C10_NoCreditAcrossGaps ==
  /\ result.op = "checkAlerts" =>
       \A r \in result.triggered :
         /\ r \in DOMAIN activeAlerts
         /\ heldSince[r] # Null
         /\ heldSince[r] <= activeAlerts[r].startTime
         /\ now - activeAlerts[r].startTime >= rules[RuleIndex(rules, r)].duration
  /\ \A r \in DOMAIN activeAlerts :
       heldSince[r] # Null => activeAlerts[r].startTime = heldSince[r]

(* this step is an evaluation tick *)
TickStep == result'.op = "checkAlerts" /\ opCount'["tick"] = opCount["tick"] + 1

(* the delivery attempts logged by this step *)
NewAttempts == SubSeq(notifications', Len(notifications) + 1, Len(notifications'))

(* number of positions of the sequence s that satisfy P *)
CountIn(s, P(_)) == Cardinality({i \in 1..Len(s) : P(s[i])})

(* C11: after suppressAlert(alertId, D) succeeded at time t on the active alert
   of rule R, no trigger notification of rule R is dispatched before t + D,
   also when the condition clears and is met again in between *)
C11_SuppressionHolds ==
  \A i \in 1..Len(notifications) :
    LET n == notifications[i]
    IN (n.kind = "trigger" /\ suppression[n.ruleId].until # Null
          /\ i > suppression[n.ruleId].sent)
       => n.at >= suppression[n.ruleId].until

(* the rule at position j had an active alert and its condition was evaluated
   as false at this tick *)
FalseReading(j) ==
  /\ rules[j].enabled
  /\ rules[j].id \in DOMAIN activeAlerts
  /\ result'.readings[j] # Null
  /\ rules[j].condition = "greater_than"
  /\ result'.readings[j] <= rules[j].threshold

(* the ids of the rule's channels that exist and are enabled *)
LiveChannels(rule) ==
  {rule.channels[i] : i \in {k \in 1..Len(rule.channels) :
                               /\ rule.channels[k] \in DOMAIN channels
                               /\ channels[rule.channels[k]].enabled}}

(* C12: at a tick where a rule with an ActiveAlert (pending, triggered or
   suppressed) evaluates its condition as false, the alert leaves the active
   set, exactly one history entry with resolvedAt = now is appended, each
   enabled channel of the rule gets one resolution notification and
   alertResolved is emitted once *)
C12_ResolvedWithinTick ==
  [][TickStep =>
       \A j \in 1..Len(rules) :
         FalseReading(j) =>
           LET id == rules[j].id
           IN /\ id \notin DOMAIN activeAlerts'
              /\ CountIn(result'.archived,
                         LAMBDA e : e.ruleId = id /\ e.resolvedAt = now'
                                      /\ e.alertId = activeAlerts[id].id) = 1
              /\ CountIn(result'.archived, LAMBDA e : e.ruleId = id /\ e.resolvedAt # Null) = 1
              /\ \A c \in LiveChannels(rules[j]) :
                   CountIn(NewAttempts,
                           LAMBDA n : n.kind = "resolved" /\ n.ruleId = id /\ n.channel = c) = 1
              /\ CountIn(result'.emitted,
                         LAMBDA e : e.event = "alertResolved" /\ e.ruleId = id) = 1]_vars

C12_Witness ==
  /\ result.op = "checkAlerts"
  /\ "critical_cpu_usage" \in result.resolved
  /\ suppression["critical_cpu_usage"].until # Null
  /\ now < suppression["critical_cpu_usage"].until
  /\ "critical_cpu_usage" \notin DOMAIN activeAlerts
  /\ \E i \in 1..Len(notifications) :
       notifications[i].kind = "resolved" /\ notifications[i].at = now

(* the ids of the enabled rules, in the order the rules were added *)
EnabledRuleIds ==
  LET enabled == SelectSeq(rules, LAMBDA r : r.enabled)
  IN [i \in 1..Len(enabled) |-> enabled[i].id]

(* C13: a tick evaluates every enabled rule exactly once, in the order the
   rules were added, and no disabled rule; an exception thrown while one rule
   is evaluated is caught, the later rules are still evaluated and the history
   cleanup of the tick still runs *)
C13_EveryEnabledRuleOnce ==
  [][TickStep =>
       /\ result'.evaluated = EnabledRuleIds
       /\ \A i \in 1..Len(result'.errors) :
            \E k \in 1..Len(result'.evaluated) : result'.evaluated[k] = result'.errors[i]
       /\ alertHistory' = cleanupResolvedAlerts(alertHistory \o result'.archived, now',
                                                alertConfig.maxAlerts)]_vars

C13_Witness ==
  /\ result.op = "checkAlerts"
  /\ result.errors = <<"high_cpu_usage">>
  /\ result.evaluated = <<"high_cpu_usage", "high_memory_usage", "critical_memory_usage",
                          "high_load_average", "slow_response_time", "high_error_rate">>
  /\ ~rules[RuleIndex(rules, "critical_cpu_usage")].enabled

(* C14: when the delivery to one channel fails, every other enabled channel
   of the rule still gets exactly one attempt, nothing is retried and the tick
   is not disturbed; for trigger and for resolution notifications *)
C14_FanOut ==
  [][TickStep =>
       /\ \A j \in 1..Len(rules) : \A c \in LiveChannels(rules[j]) :
            /\ rules[j].id \in result'.triggered =>
                 CountIn(NewAttempts, LAMBDA n : n.kind = "trigger" /\ n.ruleId = rules[j].id
                                                  /\ n.channel = c) = 1
            /\ rules[j].id \in result'.resolved =>
                 CountIn(NewAttempts, LAMBDA n : n.kind = "resolved" /\ n.ruleId = rules[j].id
                                                  /\ n.channel = c) = 1
       /\ (\E i \in 1..Len(NewAttempts) : NewAttempts[i].outcome = "failed") =>
            /\ result'.evaluated = EnabledRuleIds
            /\ result'.errors = <<>> \/
                 \E i \in 1..Len(result'.emitted) : result'.emitted[i].ruleId = result'.errors[1]]_vars

C14_Witness ==
  \E i, j \in 1..Len(notifications) :
    /\ i < j
    /\ notifications[i].kind = "resolved"
    /\ notifications[i].channel = "webhook"
    /\ notifications[i].outcome = "failed"
    /\ notifications[j].kind = "resolved"
    /\ notifications[j].alertId = notifications[i].alertId
    /\ notifications[j].channel = "logfile"
    /\ notifications[j].outcome = "delivered"

(* C16: when the metric source has no data for a rule's metric, evaluateRule
   does not throw and treats the reading as a false condition: it creates no
   ActiveAlert and resolves the rule's ActiveAlert if there is one *)
C16_NoDataIsFalse ==
  [][TickStep =>
       \A j \in 1..Len(rules) :
         (rules[j].enabled /\ result'.readings[j] = Null) =>
           /\ \A i \in 1..Len(result'.errors) : result'.errors[i] # rules[j].id
           /\ rules[j].id \notin DOMAIN activeAlerts'
           /\ rules[j].id \in DOMAIN activeAlerts => rules[j].id \in result'.resolved]_vars

(* the time a history entry was written *)
WrittenAt(e) == IF e.triggeredAt # Null THEN e.triggeredAt ELSE e.resolvedAt

(* the entries of the history that the cleanup of this tick finds younger
   than 24 hours *)
YoungEntries ==
  SelectSeq(alertHistory \o result'.archived,
            LAMBDA e : e.triggeredAt # Null /\ e.triggeredAt > now' - DayMs)

(* C15: after every tick, and after any sequence of ticks and administrative
   calls, the history holds no entry older than 24 hours and at most
   maxAlerts entries, and the entries the cap removes are the oldest *)
C15_HistoryBounded ==
  /\ [][Len(alertHistory') <= alertConfig.maxAlerts]_vars
  /\ [][TickStep =>
          /\ \A i \in 1..Len(alertHistory') : now' - WrittenAt(alertHistory'[i]) <= DayMs
          /\ Len(YoungEntries) > alertConfig.maxAlerts =>
               \A i, k \in 1..Len(YoungEntries) :
                 ((\A m \in 1..Len(alertHistory') : alertHistory'[m] # YoungEntries[i])
                    /\ (\E m \in 1..Len(alertHistory') : alertHistory'[m] = YoungEntries[k]))
                 => WrittenAt(YoungEntries[i]) <= WrittenAt(YoungEntries[k])]_vars

(* a config.set step *)
SetStep == result'.op = "set" /\ opCount'["config"] = opCount["config"] + 1

(* the value is an integer of the range the schema gives the key *)
ValidFor(key, value) ==
  /\ value.type = "number"
  /\ key = "baseRateLimit" => value.number \in 1..10000
  /\ key = "minRateLimit" => value.number \in 1..1000
  /\ key = "maxRateLimit" => value.number \in 1..10000

(* C17: config.set with a value that fails the key's schema throws and leaves the
   whole configuration unchanged; with a valid value, config.get(key) returns
   that value afterwards and no other key changes *)
C17_SetValidates ==
  [][SetStep =>
       IF ValidFor(result'.key, result'.value)
       THEN /\ ~configError'
            /\ config'[result'.key] = result'.value.number
            /\ \A k \in ConfigKeys \ {result'.key} : config'[k] = config[k]
       ELSE configError' /\ config' = config]_vars

(* baseRateLimit was set to 1, then config.set('baseRateLimit', 'invalid') threw *)
C17_Witness ==
  /\ result.op = "set" /\ result.key = "baseRateLimit"
  /\ result.value = JsString("invalid")
  /\ configError
  /\ opCount["config"] = 2
  /\ config.baseRateLimit = 1

StatsFields ==
  {"requestsPerSecond", "requestsPerMinute", "averageResponseTime", "errorRate",
   "totalRequests", "totalErrors", "peakRequestsPerSecond", "peakResponseTime"}

(* C18: two consecutive getCurrentStats calls at the same clock reading, with no
   recordRequest, recordResponse or reset between them, return identical values
   in every field except lastUpdated; totals and peaks are not counted twice *)
C18_StatsIdempotent ==
  [][(/\ result.op = "getCurrentStats" /\ result.stats.lastUpdated = now
      /\ result'.op = "getCurrentStats" /\ opCount'["call"] = opCount["call"] + 1)
     => \A f \in StatsFields : result'.stats[f] = result.stats[f]]_vars

(* a second getCurrentStats at the same clock reading, with traffic and a peak
   in the statistics *)
C18_Witness ==
  /\ result.op = "getCurrentStats" /\ result.again
  /\ result.stats.totalRequests > 0 /\ result.stats.totalErrors > 0
  /\ result.stats.peakRequestsPerSecond > 0 /\ result.stats.peakResponseTime > 0

(* the checks of the health status in their order, with their statuses *)
HealthChecks(stats) ==
  << <<stats.requestsPerSecond > 100, "high-load">>,
     <<stats.requestsPerSecond > 50, "medium-load">>,
     <<stats.errorRate.num * 10 > stats.errorRate.den, "critical">>,
     <<stats.errorRate.num * 20 > stats.errorRate.den, "warning">>,
     <<stats.averageResponseTime > 1000, "critical">>,
     <<stats.averageResponseTime > 500, "warning">>,
     <<TRUE, "healthy">> >>

(* C19: calculateHealthStatus changes nothing and returns the status of the first
   matching check in the order RPS above the high-traffic threshold (high-load),
   above the medium-traffic threshold (medium-load), error rate above the
   critical rate (critical), above the warning rate (warning), response time
   above the critical time (critical), above the warning time (warning), else
   healthy; 50 RPS, 200 ms, 1% errors is healthy and with 8% errors warning *)
C19_HealthFirstMatch ==
  [][result'.op = "calculateHealthStatus" =>
       /\ result'.status = FirstMatch(HealthChecks(arg))
       /\ UNCHANGED <<arg, monitorVars, limiterVars, config>>
       /\ (arg.requestsPerSecond = 50 /\ arg.averageResponseTime = 200
             /\ arg.errorRate = [num |-> 1, den |-> 100]) => result'.status = "healthy"
       /\ (arg.requestsPerSecond = 50 /\ arg.averageResponseTime = 200
             /\ arg.errorRate = [num |-> 8, den |-> 100]) => result'.status = "warning"]_vars

(* a snapshot above the medium-traffic threshold with half the requests failing
   and a slow response time is medium-load *)
C19_Witness ==
  /\ result.op = "calculateHealthStatus"
  /\ arg.requestsPerSecond = 51 /\ arg.errorRate = [num |-> 1, den |-> 2]
  /\ arg.averageResponseTime = 1001
  /\ result.status = "medium-load"

(* the timestamps of a log, one per entry *)
RECURSIVE Timestamps(_)
Timestamps(log) ==
  IF log = <<>> THEN <<>>
  ELSE [i \in 1..Head(log).count |-> Head(log).timestamp] \o Timestamps(Tail(log))

OffensesOf(up, id) == IF up[id].present THEN Timestamps(up[id].offenses) ELSE <<>>
RequestsOf(up, id) == IF up[id].present THEN up[id].requests ELSE <<>>

(* C20: handleRateLimit for identifier X appends exactly one offense timestamp
   (now) at the end of X's offense list, leaves X's request history and every
   other identifier's profile unchanged, and answers 429 with the limit,
   retryAfter = ceil(windowSize / 1000) and algorithm 'DAASR-v1'; the penalty
   factor of X's next quota computation counts the new offense *)
C20_OffenseRecorded ==
  /\ [][(result'.op = "handleRateLimit" /\ opCount'["call"] = opCount["call"] + 1) =>
          LET X == result'.identifier
          IN /\ OffensesOf(userPatterns', X) = Append(OffensesOf(userPatterns, X), now)
             /\ RequestsOf(userPatterns', X) = RequestsOf(userPatterns, X)
             /\ \A y \in Identifiers \ {X} : userPatterns'[y] = userPatterns[y]
             /\ result'.status = 429
             /\ result'.limit = arg'.limit
             /\ result'.retryAfter * 1000 >= arg'.windowSize
             /\ (result'.retryAfter - 1) * 1000 < arg'.windowSize
             /\ result'.algorithm = "DAASR-v1"]_vars
  /\ [][(/\ result.op = "handleRateLimit"
         /\ result'.op = "calculateDynamicLimit"
         /\ result'.identifier = result.identifier
         /\ opCount'["call"] = opCount["call"] + 1) =>
          LET recent == SelectSeq(OffensesOf(userPatterns, result.identifier),
                                  LAMBDA ts : now - ts < 900000)
          IN /\ result'.penaltyFactor = Max(5, 10 - Len(recent))
             /\ now - result.timestamp < 900000 => result'.penaltyFactor <= 9]_vars

(* a second rejection of ip1, later than the first, with a window that is not
   a whole number of seconds *)
C20_Witness ==
  /\ result.op = "handleRateLimit" /\ result.identifier = "ip1"
  /\ OffensesOf(userPatterns, "ip1") = <<30000, 60000>>
  /\ now = 60000
  /\ RequestsOf(userPatterns, "ip1") # <<>>
  /\ arg.windowSize = 1500 /\ result.retryAfter = 2

(* every counter and derived figure of the statistics is 0 *)
AllZero(stats) ==
  /\ stats.totalRequests = 0 /\ stats.totalErrors = 0
  /\ stats.requestsPerSecond = 0 /\ stats.requestsPerMinute = 0
  /\ stats.averageResponseTime = 0 /\ stats.errorRate.num = 0
  /\ stats.peakRequestsPerSecond = 0 /\ stats.peakResponseTime = 0

(* C21: after reset() the request, response and error logs are empty and every
   counter and derived figure is 0, and a getCurrentStats() made before any new
   event returns all zeros whatever was recorded before the reset *)
C21_ResetClears ==
  /\ [][(result'.op = "reset" /\ opCount'["admin"] = opCount["admin"] + 1) =>
          /\ requestHistory' = <<>> /\ responseTimeHistory' = <<>> /\ errorHistory' = <<>>
          /\ AllZero(trafficStats')]_vars
  /\ [][(/\ result.op \in {"reset", "getCurrentStats"}
         /\ requestHistory = <<>> /\ responseTimeHistory = <<>> /\ errorHistory = <<>>
         /\ opCount["admin"] > 0
         /\ result'.op = "getCurrentStats" /\ opCount'["call"] = opCount["call"] + 1) =>
          AllZero(result'.stats)]_vars

(* statistics read after a reset that followed recorded traffic *)
C21_Witness ==
  /\ result.op = "getCurrentStats"
  /\ opCount["admin"] = 1 /\ opCount["traffic"] >= 2
  /\ requestHistory = <<>> /\ responseTimeHistory = <<>> /\ errorHistory = <<>>
  /\ AllZero(result.stats)

(* what a rule compares, against what, for how long *)
RuleTerms(rule) ==
  [metric |-> rule.metric, condition |-> rule.condition, threshold |-> rule.threshold,
   duration |-> rule.duration, enabled |-> rule.enabled]

Sustained(metric, threshold, duration) ==
  [metric |-> metric, condition |-> "greater_than", threshold |-> threshold,
   duration |-> duration, enabled |-> TRUE]

Constructed == result = NoResult /\ ~isRunning /\ \A k \in OpKinds : opCount[k] = 0

(* C22: right after construction the evaluator holds exactly the enabled
   greater_than rules CPU > 80 for 60 s and > 95 for 30 s, memory > 85 for 60 s
   and > 95 for 30 s, load average > 4 for 120 s, response time > 1000 ms for
   60 s and error rate > 5 % for 60 s; no alert is active, the history is empty *)
C22_DefaultRules ==
  Constructed =>
    /\ Len(rules) = 7
    /\ {RuleTerms(rules[i]) : i \in 1..Len(rules)} =
         {Sustained("system.cpu.overall", 80, 60000),
          Sustained("system.cpu.overall", 95, 30000),
          Sustained("system.memory.usagePercent", 85, 60000),
          Sustained("system.memory.usagePercent", 95, 30000),
          Sustained("system.load.load1", 4, 120000),
          Sustained("application.response_time", 1000, 60000),
          Sustained("application.error_rate", 5, 60000)}
    /\ DOMAIN activeAlerts = {}
    /\ alertHistory = <<>>

(* the evaluator as constructed, before start() *)
C22_Witness == Constructed /\ Len(rules) = 7 /\ now = 0

(* the rule at position j is enabled, its metric is available and its condition
   true at this tick, its alert has lasted the rule's duration and is not
   suppressed *)
DueReading(j) ==
  LET id == rules[j].id
      startTime == IF id \in DOMAIN activeAlerts THEN activeAlerts[id].startTime ELSE now'
  IN /\ rules[j].enabled
     /\ rules[j].condition = "greater_than"
     /\ result'.readings[j] # Null
     /\ result'.readings[j] > rules[j].threshold
     /\ now' - startTime >= rules[j].duration
     /\ \/ id \notin DOMAIN activeAlerts
        \/ activeAlerts[id].suppressedUntil = Null
        \/ now' >= activeAlerts[id].suppressedUntil

(* C23: when a rule is enabled, its metric available and its condition true at
   every tick since its ActiveAlert was created, the alert triggers at the first
   tick with now - startTime >= duration at which it is not suppressed:
   triggerCount increases by 1, lastTriggered becomes now, a 'triggered' entry is
   appended to the history, each enabled channel of the rule gets a notification
   and alertTriggered is emitted *)
C23_TriggersWhenDue ==
  [][TickStep =>
       \A j \in 1..Len(rules) :
         DueReading(j) =>
           LET id == rules[j].id
           IN /\ rules'[j].triggerCount = rules[j].triggerCount + 1
              /\ rules'[j].lastTriggered = now'
              /\ CountIn(result'.archived,
                         LAMBDA e : e.ruleId = id /\ e.type = "triggered"
                                      /\ e.triggeredAt = now') = 1
              /\ \E k \in 1..Len(alertHistory') :
                   /\ alertHistory'[k].ruleId = id
                   /\ alertHistory'[k].triggeredAt = now'
              /\ \A c \in LiveChannels(rules[j]) :
                   CountIn(NewAttempts,
                           LAMBDA n : n.kind = "trigger" /\ n.ruleId = id /\ n.channel = c) = 1
              /\ CountIn(result'.emitted,
                         LAMBDA e : e.event = "alertTriggered" /\ e.ruleId = id) = 1]_vars

(* the first trigger of an alert whose suppression has run out *)
C23_Witness ==
  /\ result.op = "checkAlerts"
  /\ "critical_cpu_usage" \in result.triggered
  /\ "critical_cpu_usage" \in DOMAIN activeAlerts
  /\ activeAlerts["critical_cpu_usage"].suppressedUntil # Null
  /\ now >= activeAlerts["critical_cpu_usage"].suppressedUntil
  /\ activeAlerts["critical_cpu_usage"].notificationsSent = 1
  /\ rules[RuleIndex(rules, "critical_cpu_usage")].triggerCount = 1

(* C24: for one ActiveAlert the transition to triggered happens at most once:
   the history holds at most one 'triggered' entry of the alert and each
   channel has received at most one trigger notification of it, however many
   ticks the condition stays true after the duration has elapsed *)
C24_TriggersOnce ==
  \A id \in DOMAIN activeAlerts :
    /\ activeAlerts[id].notificationsSent <= 1
    /\ CountIn(alertHistory,
               LAMBDA e : e.alertId = activeAlerts[id].id /\ e.type = "triggered") <= 1
    /\ \A c \in DOMAIN channels :
         CountIn(notifications,
                 LAMBDA n : n.kind = "trigger" /\ n.alertId = activeAlerts[id].id
                              /\ n.channel = c) <= 1

(* C25: for each inbound request handled by the middleware the identifier's
   request history grows by exactly one entry (up to the cap of 100), so the
   burst factor counts the identifier's requests of the last 60 seconds and the
   reputation factor's total is the number of requests the identifier has made *)
C25_OneEntryPerRequest ==
  [][(result'.op = "request" /\ opCount'["call"] = opCount["call"] + 1) =>
       LET X == result'.identifier
           before == SumCount(RequestsOf(userPatterns, X))
       IN SumCount(RequestsOf(userPatterns', X)) = Min(100, before + 1)]_vars

(* C26: when no request lies in the last 60 seconds (after a reset, or because
   traffic stopped after a period with errors or slow responses), a quota
   computation applies the neutral traffic multiplier 1.0 *)
C26_NeutralOnEmptyWindow ==
  (/\ result.op = "calculateDynamicLimit"
   /\ result.stats.lastUpdated = now
   /\ InWindow(requestHistory, now, 60000) = 0)
  => result.trafficMultiplier = 10

(* C27: in every reachable state getCurrentStats().errorRate lies between 0 and
   1 inclusive, also when error responses are recorded for requests that have
   left the 60-second window or without a matching recorded request *)
C27_ErrorRateWithinUnit ==
  result.op = "getCurrentStats" =>
    /\ 0 <= result.stats.errorRate.num
    /\ result.stats.errorRate.num <= result.stats.errorRate.den

(* C28: a history entry written at resolution time stays in the history for 24
   hours unless the maxAlerts cap evicts it: it is present after the cleanup of
   the tick that resolved the alert and after every later tick within 24 hours *)
C28_ResolvedEntryKept ==
  [][(TickStep /\ Len(alertHistory) + Len(result'.archived) <= alertConfig.maxAlerts) =>
       /\ \A i \in 1..Len(result'.archived) :
            result'.archived[i].resolvedAt # Null =>
              \E k \in 1..Len(alertHistory') : alertHistory'[k] = result'.archived[i]
       /\ \A i \in 1..Len(alertHistory) :
            (alertHistory[i].resolvedAt # Null
               /\ now' - alertHistory[i].resolvedAt <= DayMs) =>
              \E k \in 1..Len(alertHistory') : alertHistory'[k] = alertHistory[i]]_vars

(* C29: every alert in the active set belongs to a rule that exists, is enabled
   and whose condition was true at its last evaluation; after the rule is
   removed or disabled its alert does not stay in the active set beyond the
   next tick *)
C29_ActiveAlertsHaveLiveRule ==
  result.op = "checkAlerts" =>
    \A id \in DOMAIN activeAlerts :
      \E j \in 1..Len(rules) :
        /\ rules[j].id = id
        /\ rules[j].enabled
        /\ result.readings[j] # Null => result.readings[j] > rules[j].threshold

(* C30: under every interleaving of the asynchronous deliveries with later
   ticks, a channel receives the resolution notification of an alert only
   after every trigger notification of that alert addressed to that channel
   has been delivered: in the order of arrival no trigger notification of an
   alert follows a resolution notification of that alert on the same channel *)
C30_ResolutionAfterTriggers ==
  \A i, k \in 1..Len(notifications) :
    (/\ i < k
     /\ notifications[i].kind = "resolved" /\ notifications[i].outcome = "delivered"
     /\ notifications[k].kind = "trigger" /\ notifications[k].outcome = "delivered"
     /\ notifications[i].channel = notifications[k].channel)
    => notifications[i].alertId # notifications[k].alertId

(* the last n elements of an array *)
Latest(s, n) == IF Len(s) <= n THEN s ELSE [i \in 1..n |-> s[Len(s) - n + i]]

NonDecreasing(s) == \A i \in 1..(Len(s) - 1) : s[i] <= s[i + 1]

(* this step runs calculateDynamicLimit once for identifier: on its own or in
   the handler of a rejected request *)
ComputesQuota(identifier) ==
  /\ result'.op \in {"calculateDynamicLimit", "handleRateLimit"}
  /\ result'.identifier = identifier
  /\ opCount'["call"] = opCount["call"] + 1

(* C31: each identifier's request history holds at most 100 entries, which are
   its most recent requests in insertion order (timestamps non-decreasing): a
   quota computation appends the request and keeps the last 100, no other
   operation touches the history; the offense list is in insertion order; and
   of the factors only the burst factor adds to the request history (the
   reputation and penalty factors leave it as it is) *)
C31_HistoryOrdered ==
  /\ [](\A id \in Identifiers :
          /\ SumCount(RequestsOf(userPatterns, id)) <= 100
          /\ NonDecreasing(Timestamps(RequestsOf(userPatterns, id)))
          /\ NonDecreasing(OffensesOf(userPatterns, id))
          /\ RequestsOf(calculatePenaltyFactor(userPatterns, id, now).up, id)
               = RequestsOf(userPatterns, id))
  /\ [][\A id \in Identifiers :
          LET before == Timestamps(RequestsOf(userPatterns, id))
              after == Timestamps(RequestsOf(userPatterns', id))
          IN /\ ComputesQuota(id) => after = Latest(Append(before, now), 100)
             /\ ~ComputesQuota(id) => after = before
             /\ result'.op = "calculateUserReputation" => userPatterns' = userPatterns]_vars

(* a quota computation on a full history: the request of 30000 is the last of
   the 100 entries and the oldest entry has left *)
C31_Witness ==
  /\ result.op = "calculateDynamicLimit"
  /\ now = 30000
  /\ LET ts == Timestamps(RequestsOf(userPatterns, result.identifier))
     IN Len(ts) = 100 /\ ts[1] = 0 /\ ts[99] = 0 /\ ts[100] = 30000

(* this step is a call of suppressAlert *)
SuppressStep == result'.op = "suppressAlert" /\ opCount'["admin"] = opCount["admin"] + 1

(* the rule at position j has an alert that is suppressed at this tick *)
SuppressedAt(j) ==
  /\ rules[j].enabled
  /\ rules[j].id \in DOMAIN activeAlerts
  /\ activeAlerts[rules[j].id].suppressedUntil # Null
  /\ now' < activeAlerts[rules[j].id].suppressedUntil

(* C32: suppressAlert(alertId, D) on an alert of the active set changes nothing
   but that alert's suppressedUntil (now + D) and returns true; for an id that
   matches no active alert it returns false and changes nothing; while an
   alert is suppressed its rule is still evaluated at every tick: a reading
   that satisfies the condition refreshes currentValue and lastUpdate, a
   reading that does not resolves the alert *)
C32_SuppressOnlySilences ==
  /\ [][SuppressStep =>
          LET hit == {k \in DOMAIN activeAlerts : activeAlerts[k].id = result'.alertId}
          IN /\ result'.value = (hit # {})
             /\ DOMAIN activeAlerts' = DOMAIN activeAlerts
             /\ \A k \in DOMAIN activeAlerts :
                  IF k \in hit
                  THEN /\ activeAlerts'[k].suppressedUntil = now + result'.duration
                       /\ [activeAlerts'[k] EXCEPT !.suppressedUntil = Null]
                            = [activeAlerts[k] EXCEPT !.suppressedUntil = Null]
                  ELSE activeAlerts'[k] = activeAlerts[k]
             /\ UNCHANGED <<rules, channels, alertHistory, notifications, alertConfig,
                            isRunning, inFlight, now>>]_vars
  /\ [][TickStep =>
          \A j \in 1..Len(rules) :
            (SuppressedAt(j) /\ result'.readings[j] # Null) =>
              LET id == rules[j].id
              IN /\ CountIn(result'.evaluated, LAMBDA r : r = id) = 1
                 /\ IF evaluateCondition(result'.readings[j], rules[j].condition,
                                         rules[j].threshold)
                    THEN /\ id \in DOMAIN activeAlerts'
                         /\ activeAlerts'[id].currentValue = result'.readings[j]
                         /\ activeAlerts'[id].lastUpdate = now'
                         /\ activeAlerts'[id].id = activeAlerts[id].id
                    ELSE /\ id \notin DOMAIN activeAlerts'
                         /\ id \in result'.resolved]_vars

(* a tick that finds the condition still true on a suppressed alert whose
   duration has elapsed: the alert is refreshed and nothing is sent *)
C32_Witness ==
  /\ result.op = "checkAlerts"
  /\ "critical_cpu_usage" \in DOMAIN activeAlerts
  /\ LET alert == activeAlerts["critical_cpu_usage"]
     IN /\ alert.suppressedUntil # Null /\ now < alert.suppressedUntil
        /\ alert.lastUpdate = now /\ alert.currentValue = 97
        /\ now - alert.startTime >= 30000
        /\ alert.notificationsSent = 0
  /\ "critical_cpu_usage" \notin result.triggered
  /\ "high_cpu_usage" \in DOMAIN activeAlerts
  /\ activeAlerts["high_cpu_usage"].suppressedUntil = Null

(* C33: a query changes no state: across a call of getAlertHistory the stored
   history keeps the same entries in the same oldest-first order and the
   active set is unchanged *)
C33_QueriesChangeNothing ==
  [][(result'.op = "getAlertHistory" /\ opCount'["admin"] = opCount["admin"] + 1) =>
       /\ alertHistory' = alertHistory
       /\ activeAlerts' = activeAlerts]_vars

(* the status the thresholds th give the metrics m, the first match winning *)
StatusUnder(m, th) ==
  IF m.requestsPerSecond > th.highTraffic THEN "high-load"
  ELSE IF m.requestsPerSecond > th.mediumTraffic THEN "medium-load"
  ELSE IF m.errorRate.num * th.criticalErrorRate[2] > th.criticalErrorRate[1] * m.errorRate.den
       THEN "critical"
  ELSE IF m.errorRate.num * th.warningErrorRate[2] > th.warningErrorRate[1] * m.errorRate.den
       THEN "warning"
  ELSE IF m.averageResponseTime > th.criticalResponseTime THEN "critical"
  ELSE IF m.averageResponseTime > th.warningResponseTime THEN "warning"
  ELSE "healthy"

(* C34: the thresholds getSystemHealth reports next to a status, which are the
   configured ones, are the thresholds that produced the status: the status is
   the classification of the reported metrics under the reported thresholds,
   whatever config.set has made of them *)
C34_ConfiguredThresholdsApply ==
  result.op = "getSystemHealth" =>
    /\ result.thresholds.highTraffic = config.highTrafficThreshold
    /\ result.thresholds.mediumTraffic = config.mediumTrafficThreshold
    /\ result.thresholds.criticalResponseTime = config.criticalResponseTime
    /\ result.thresholds.warningResponseTime = config.warningResponseTime
    /\ result.status = StatusUnder(result.metrics, result.thresholds)

(* this step is a call of getCurrentStats *)
StatsRead == result'.op = "getCurrentStats" /\ opCount'["call"] = opCount["call"] + 1

(* C35: getCurrentStats().requestsPerMinute is the number of requests recorded
   in the last 60 seconds and requestsPerSecond is that number divided by 60:
   requestsPerSecond * 60 = requestsPerMinute at every traffic level *)
C35_RatePerSecond ==
  [][StatsRead =>
       /\ result'.stats.requestsPerMinute = InWindow(requestHistory, now, 60000)
       /\ result'.stats.requestsPerSecond * 60 = result'.stats.requestsPerMinute]_vars

(* C35, amended: requestsPerMinute is the number of requests recorded in the
   last 60 seconds and requestsPerSecond is that number divided by 60 and
   rounded to the nearest integer, a half rounded up:
   60 * rps - 30 <= rpm < 60 * rps + 30 *)
C35_RoundedRatePerSecond ==
  [][StatsRead =>
       /\ result'.stats.requestsPerMinute = InWindow(requestHistory, now, 60000)
       /\ 60 * result'.stats.requestsPerSecond - 30 <= result'.stats.requestsPerMinute
       /\ result'.stats.requestsPerMinute < 60 * result'.stats.requestsPerSecond + 30]_vars

(* 90 requests in the window read as 2 per second, with older requests outside it *)
C35_Witness ==
  /\ result.op = "getCurrentStats"
  /\ now = 60000
  /\ SumCount(requestHistory) > 90
  /\ result.stats.requestsPerMinute = 90
  /\ result.stats.requestsPerSecond = 2

Operators == {"greater_than", "less_than", "equal_to", "not_equal_to",
              "greater_than_or_equal", "less_than_or_equal"}

(* the fields of a rule, or of an update, that are given are valid: a known
   comparison operator, a sustain duration that is not negative *)
ValidFields(r) ==
  /\ "condition" \in DOMAIN r => r.condition \in Operators
  /\ "duration" \in DOMAIN r => r.duration >= 0

(* C36: addRule and updateRule reject a rule or an update whose threshold,
   sustain duration or comparison operator is invalid: the call leaves the
   rule set and every existing rule unchanged *)
C36_InvalidRuleRejected ==
  /\ [][(result'.op = "addRule" /\ opCount'["admin"] = opCount["admin"] + 1
           /\ ~ValidFields(result'.rule)) => rules' = rules]_vars
  /\ [][(result'.op = "updateRule" /\ opCount'["admin"] = opCount["admin"] + 1
           /\ ~ValidFields(result'.updates)) => rules' = rules]_vars

(* C37: a metric reading of exactly 0 is a value: at a tick where the metric
   of an enabled rule reads 0 the condition is evaluated against the
   threshold, so a rule whose condition is false at 0 has no active alert
   after the tick (an active one is resolved) and a rule whose condition is
   true at 0 has one *)
C37_ZeroIsAValue ==
  [][TickStep =>
       \A j \in 1..Len(rules) :
         (rules[j].enabled /\ result'.samples[j] = 0) =>
           IF evaluateCondition(0, rules[j].condition, rules[j].threshold)
           THEN rules[j].id \in DOMAIN activeAlerts'
           ELSE /\ rules[j].id \notin DOMAIN activeAlerts'
                /\ rules[j].id \in DOMAIN activeAlerts => rules[j].id \in result'.resolved]_vars

(* C38: the active set holds at most one ActiveAlert per rule, stored under
   the rule's id; an ActiveAlert is created only at a tick where the rule's
   condition is true and the rule has no active alert, with startTime = now,
   suppressedUntil = null and notificationsSent = 0 (1 when the alert triggers
   in the tick that creates it); its id and startTime do not change while it
   stays in the active set *)
C38_OneAlertPerRule ==
  /\ [](\A k \in DOMAIN activeAlerts :
          /\ activeAlerts[k].ruleId = k
          /\ \E j \in 1..Len(rules) : rules[j].id = k
          /\ \A m \in DOMAIN activeAlerts : activeAlerts[m].id = activeAlerts[k].id => m = k)
  /\ [][\A k \in (DOMAIN activeAlerts') \ DOMAIN activeAlerts :
          LET j == RuleIndex(rules, k)
          IN /\ TickStep
             /\ rules[j].enabled
             /\ result'.readings[j] # Null
             /\ evaluateCondition(result'.readings[j], rules[j].condition, rules[j].threshold)
             /\ activeAlerts'[k].startTime = now'
             /\ activeAlerts'[k].id = <<k, now'>>
             /\ activeAlerts'[k].suppressedUntil = Null
             /\ activeAlerts'[k].notificationsSent = IF k \in result'.triggered THEN 1 ELSE 0]_vars
  /\ [][\A k \in (DOMAIN activeAlerts') \cap DOMAIN activeAlerts :
          /\ activeAlerts'[k].id = activeAlerts[k].id
          /\ activeAlerts'[k].startTime = activeAlerts[k].startTime]_vars

(* a tick that creates one alert next to an older one that has been refreshed
   twice and has triggered *)
C38_Witness ==
  /\ result.op = "checkAlerts"
  /\ now = 90000
  /\ DOMAIN activeAlerts = {"critical_cpu_usage", "high_cpu_usage"}
  /\ activeAlerts["critical_cpu_usage"].startTime = 30000
  /\ activeAlerts["critical_cpu_usage"].lastUpdate = 90000
  /\ activeAlerts["critical_cpu_usage"].notificationsSent >= 1
  /\ activeAlerts["high_cpu_usage"].startTime = 90000
  /\ activeAlerts["high_cpu_usage"].notificationsSent = 0

(* number of events of the log recorded at clock reading ts *)
CountOf(log, ts) == CountAt(log, {i \in 1..Len(log) : log[i].timestamp = ts})

(* every event of log that is younger than one hour at t is still in after *)
YoungKept(log, after, t) ==
  \A i \in 1..Len(log) :
    t - log[i].timestamp < 3600000 =>
      CountOf(after, log[i].timestamp) >= CountOf(log, log[i].timestamp)

(* the log holds no event older than one hour at t *)
NoneOlder(log, t) == \A i \in 1..Len(log) : t - log[i].timestamp <= 3600000

ResetStep == opCount'["admin"] = opCount["admin"] + 1
TimerStep == result'.op = "monitorTick" /\ opCount'["tick"] = opCount["tick"] + 1
RequestStep == result'.op = "recordRequest" /\ opCount'["traffic"] = opCount["traffic"] + 1
ResponseStep == result'.op = "recordResponse" /\ opCount'["traffic"] = opCount["traffic"] + 1

(* C39: pruning never removes a request, response or error event younger than
   one hour; after the periodic cleanup none of the three logs, after
   recordRequest the request log, and after recordResponse the response and
   the error log, holds an event older than one hour *)
C39_PruningKeepsTheHour ==
  /\ [][~ResetStep =>
          /\ YoungKept(requestHistory, requestHistory', now')
          /\ YoungKept(responseTimeHistory, responseTimeHistory', now')
          /\ YoungKept(errorHistory, errorHistory', now')]_vars
  /\ [][TimerStep =>
          /\ NoneOlder(requestHistory', now')
          /\ NoneOlder(responseTimeHistory', now')
          /\ NoneOlder(errorHistory', now')]_vars
  /\ [][RequestStep => NoneOlder(requestHistory', now')]_vars
  /\ [][ResponseStep =>
          NoneOlder(responseTimeHistory', now') /\ NoneOlder(errorHistory', now')]_vars

(* the cleanup of 3660000 has removed what was recorded at 1000 and at 60000
   and kept what was recorded at 3500000 *)
C39_Witness ==
  /\ result.op = "monitorTick"
  /\ now = 3660000
  /\ CountOf(requestHistory, 3500000) = 1
  /\ CountOf(requestHistory, 60000) = 0
  /\ CountOf(responseTimeHistory, 1000) = 0
  /\ CountOf(responseTimeHistory, 3500000) = 1
  /\ errorHistory = <<>>
  /\ trafficStats.totalRequests = 4

(* the events of log that are younger than one hour at t are in after, each
   as often as in log, next to added events recorded at t *)
SameYoung(log, after, t, added) ==
  /\ \A i \in 1..Len(log) :
       (t - log[i].timestamp < 3600000 /\ log[i].timestamp # t) =>
         CountOf(after, log[i].timestamp) = CountOf(log, log[i].timestamp)
  /\ \A i \in 1..Len(after) :
       after[i].timestamp # t => CountOf(log, after[i].timestamp) = CountOf(after, after[i].timestamp)
  /\ CountOf(after, t) = CountOf(log, t) + added

(* C40: in every order of request handlers, cleanup timer and statistics
   queries each event recorded less than an hour ago is in its log exactly
   once and totalRequests counts the recordRequest calls since the last reset:
   recordRequest adds its event and 1 to totalRequests, recordResponse adds
   its events, and no step drops or duplicates an event younger than an hour *)
C40_NoLostAppend ==
  /\ [][RequestStep =>
          /\ trafficStats'.totalRequests = trafficStats.totalRequests + result'.n
          /\ SameYoung(requestHistory, requestHistory', now, result'.n)
          /\ SameYoung(responseTimeHistory, responseTimeHistory', now, 0)
          /\ SameYoung(errorHistory, errorHistory', now, 0)]_vars
  /\ [][ResponseStep =>
          /\ trafficStats'.totalRequests = trafficStats.totalRequests
          /\ SameYoung(requestHistory, requestHistory', now, 0)
          /\ SameYoung(responseTimeHistory, responseTimeHistory', now, result'.n)
          /\ SameYoung(errorHistory, errorHistory', now,
                       IF result'.statusCode >= 400 THEN result'.n ELSE 0)]_vars
  /\ [][(~RequestStep /\ ~ResponseStep /\ ~ResetStep) =>
          /\ trafficStats'.totalRequests = trafficStats.totalRequests
          /\ SameYoung(requestHistory, requestHistory', now', 0)
          /\ SameYoung(responseTimeHistory, responseTimeHistory', now', 0)
          /\ SameYoung(errorHistory, errorHistory', now', 0)]_vars
  /\ [][ResetStep => trafficStats'.totalRequests = 0 /\ requestHistory' = <<>>]_vars

(* a request recorded between two firings of the timer has survived the next
   cleanup and is counted: five requests since construction, two in the log *)
C40_Witness ==
  /\ result.op = "monitorTick"
  /\ now = 3660000
  /\ trafficStats.totalRequests = 5
  /\ CountOf(requestHistory, 3601000) = 1
  /\ CountOf(requestHistory, 3500000) = 1
  /\ SumCount(requestHistory) = 2

====
